---- MODULE Spec2Model ----
(***************************************************************************)
(* Verification model of the SynApps orchestrator core                     *)
(* (apps/orchestrator-v0.5): circuit breaker and retry delays of the       *)
(* resilience manager, the priority message bus, the conditional branching *)
(* engine, the message batcher, the replay manager and the nested /        *)
(* enhanced workflow engines.                                              *)
(*                                                                         *)
(* Every component has its own specification (Init and Next over the       *)
(* variables of the component; the variables of the other components stay  *)
(* at their initial values).                                               *)
(***************************************************************************)
EXTENDS Integers, Sequences, FiniteSets, TLC

VARIABLES
    \* ---- resilience.py: ResilienceManager.circuit_breakers and the clock
    circuit_breakers,   \* node id -> CircuitBreaker fields (exists = FALSE: no breaker)
    now,                \* datetime.now() / time.time(), in ticks
    cbCall,             \* the last breaker call and what it returned
    consec,             \* history: failures recorded since the last success, per node
    lastFail,           \* history: time of the last recorded failure, per node (-1: none)
    probes,             \* history: calls admitted by a breaker that is not closed since the
                        \* last recorded outcome, per node (counted up to 2)
    \* ---- resilience.py: calculate_retry_delay_ms
    rdConfig,           \* the ResilienceConfig under test
    rdCount,            \* retry_count
    rdResult,           \* what calculate_retry_delay_ms returned ([kind, delay])
    \* ---- priority_messaging.py: PriorityMessageBus, one topic, and the event loop
    priority_queues,    \* the topic's heap of (-priority, timestamp, message)
    is_processing,      \* is_processing[topic]
    message_history,    \* message_history[topic]; a message is named by its position
    subscribers,        \* subscribers[topic], in subscription order
    busClock,           \* datetime.now().timestamp(), in ticks
    ready,              \* the event loop's queue of ready handles
    tasks,              \* the _process_queue tasks, named by the publish that made them
    delivered,          \* history: callback invocations [msg, sub, seen], seen being
                        \* the number of messages published when msg was popped
    publishRaised,      \* history: the messages whose publish call raised
    \* ---- conditional_branching.py: ConditionalBranchingEngine, one workflow
    workflow_branches,  \* workflow_branches[workflow_id], in registration order
    brCall              \* the last evaluate_branch / get_next_step call and its result

cbVars == <<circuit_breakers, now, cbCall, consec, lastFail, probes>>
rdVars == <<rdConfig, rdCount, rdResult>>
busVars == <<priority_queues, is_processing, message_history, subscribers, busClock,
             ready, tasks, delivered, publishRaised>>
branchVars == <<workflow_branches, brCall>>
VARIABLES
    \* ---- workflow_engine_extensions.py / nested_workflows.py: the enhanced engine,
    \*      its nested workflow engine and the tasks that drive executions
    workflows,          \* ids of the workflows known to the engine
    nested_steps,       \* ids of the steps that are NestedWorkflowSteps
    engine_contexts,    \* workflow id -> ExecutionContext (exists = FALSE: none)
    execution_contexts, \* NestedWorkflowEngine.execution_contexts; the execution id
                        \* is the position
    nestedTasks,        \* the _execute_workflow task of each nested execution
    mainTask,           \* the caller of execute_workflow and what the call returned
    nestedTrace,        \* history per nested execution: the messages at launch and
                        \* at the resume call, and whether the child failed
    engClock,           \* the event loop's time(), in ticks
    cancelCall,         \* the last cancel_nested_workflow call and what it returned
    resumeTask,         \* a caller of resume_workflow_from_step other than the nested
                        \* engine, and the loop its call drives
    invocations         \* history: the step.execute calls made by execute_step, as
                        \* pairs of workflow id and step id, in order
engVars == <<workflows, nested_steps, engine_contexts, execution_contexts, nestedTasks,
             mainTask, nestedTrace, engClock, cancelCall, resumeTask, invocations>>
VARIABLES
    \* ---- core/meta_agent/orchestrator.py: MetaAgentOrchestrator
    active_workflows,   \* ids of the workflows in active_workflows
    node_history,       \* message_history[workflow_id]: the output messages stored
    orchCall            \* the last execute_workflow call and how it ended
orchVars == <<active_workflows, node_history, orchCall>>
VARIABLES
    \* ---- communication/message_batching.py: MessageBatcher
    message_batches,    \* topic -> buffered messages; a message is named by its number
    last_batch_times,   \* the dict last_batch_times as [topic, time] in insertion order
    batch_handlers,     \* topics with a registered batch handler
    batch_size,         \* MessageBatcher.batch_size
    running,            \* MessageBatcher.running
    batchClock,         \* time.time(), in ticks
    checker,            \* the _processing_loop task and its _check_timeouts call
    handlerCalls,       \* history: the handler calls, finished or still suspended
    added,              \* history: number of messages accepted by add_message
    stopper,            \* the caller of stop() and how far the call has come
    addedAt             \* history: the time and topic of each add_message call
batchVars == <<message_batches, last_batch_times, batch_handlers, batch_size, running,
               batchClock, checker, handlerCalls, added, stopper, addedAt>>
VARIABLES
    \* ---- communication/message_replay.py: MessageReplayManager
    msgStatus,          \* the persisted status of each stored message
    processors,         \* topics with a registered processor
    filters,            \* topic -> messages its filter lets through
    active_replays,     \* the replay sessions; replay_id is the position
    replayTasks,        \* the _replay_messages task of each session
    replayReturn,       \* what the last replay_failed_messages call returned
    processorCalls      \* history: the processor calls, in the order made
replayVars == <<msgStatus, processors, filters, active_replays, replayTasks,
                replayReturn, processorCalls>>
VARIABLES
    \* ---- resilience.py: ResilienceManager.handle_error on one node
    heConfig,           \* the node's ResilienceConfig
    error_handlers,     \* TRUE when a custom handler is registered for the error type
    heBreaker,          \* the node's circuit breaker (exists = FALSE: none)
    error_context,      \* error_context.get("retry_count"), None while the key is absent
    heMessage,          \* the message object the caller passes to every call
    heCalls             \* history: what each handle_error call returned
heVars == <<heConfig, error_handlers, heBreaker, error_context, heMessage, heCalls>>
VARIABLES
    \* ---- persistent_messaging.py: PersistentMessageBus.publish over the bus above
    publishCalls        \* the publish calls in call order: the message, how the
                        \* save ended, and the message's position in the history
pbVars == <<publishCalls>>
VARIABLES
    \* ---- workflow/workflow_engine.py: WorkflowEngine
    update_callbacks,   \* the registered update callbacks, in registration order
    weCall,             \* the execute_workflow call in progress or last finished
    updateLog           \* the update events of the call and the callbacks invoked
weVars == <<update_callbacks, weCall, updateLog>>
VARIABLES
    historyCall         \* the last get_message_history call: arguments and result
histVars == <<historyCall>>
VARIABLES
    rules,              \* RuleEngine.rules: the registered rules, in dict order
    validateCall        \* the last validate_output call: message and result
valVars == <<rules, validateCall>>
VARIABLES
    \* ---- nested_workflows.py: the registry of nested executions
    parent_to_children, \* parent workflow id -> set of child workflow ids
    child_to_parent,    \* child workflow id -> parent workflow id (NoParent: no entry)
    nested_executions,  \* the NestedWorkflowContexts of execution_contexts, in order
                        \* of creation; an execution's id is its position
    step_contexts,      \* parent step id -> execution id (0: no entry)
    stepCall            \* the last get_step_execution call and what it returned
stepVars == <<parent_to_children, child_to_parent, nested_executions, step_contexts,
              stepCall>>
VARIABLES
    \* ---- message_batching.py: MessageThrottler (token bucket)
    rate_limit,         \* messages per time window
    burst_limit,        \* cap of the bucket
    tokens,             \* tokens in the bucket
    last_refill_time,   \* time.time() at the last refill, in ticks
    throttlerClock,     \* time.time(), in ticks
    acquireCall         \* the last acquire call: count and value returned
throttlerVars == <<rate_limit, burst_limit, tokens, last_refill_time, throttlerClock,
                   acquireCall>>
vars == <<cbVars, rdVars, busVars, branchVars, engVars, orchVars, batchVars, replayVars, heVars, pbVars, weVars, histVars, valVars, stepVars, throttlerVars>>

\* the variables of the other components, per component
notCb == <<rdVars, busVars, branchVars, engVars, orchVars, batchVars, replayVars, heVars, pbVars, weVars, histVars, valVars, stepVars, throttlerVars>>
notRd == <<cbVars, busVars, branchVars, engVars, orchVars, batchVars, replayVars, heVars, pbVars, weVars, histVars, valVars, stepVars, throttlerVars>>
notBus == <<cbVars, rdVars, branchVars, engVars, orchVars, batchVars, replayVars, heVars, pbVars, weVars, histVars, valVars, stepVars, throttlerVars>>
notBranch == <<cbVars, rdVars, busVars, engVars, orchVars, batchVars, replayVars, heVars, pbVars, weVars, histVars, valVars, stepVars, throttlerVars>>
notEng == <<cbVars, rdVars, busVars, branchVars, orchVars, batchVars, replayVars, heVars, pbVars, weVars, histVars, valVars, stepVars, throttlerVars>>
notOrch == <<cbVars, rdVars, busVars, branchVars, engVars, batchVars, replayVars, heVars, pbVars, weVars, histVars, valVars, stepVars, throttlerVars>>
notBatch == <<cbVars, rdVars, busVars, branchVars, engVars, orchVars, replayVars, heVars, pbVars, weVars, histVars, valVars, stepVars, throttlerVars>>
notReplay == <<cbVars, rdVars, busVars, branchVars, engVars, orchVars, batchVars, heVars, pbVars, weVars, histVars, valVars, stepVars, throttlerVars>>
notHe == <<cbVars, rdVars, busVars, branchVars, engVars, orchVars, batchVars, replayVars, pbVars, weVars, histVars, valVars, stepVars, throttlerVars>>
notPb == <<cbVars, rdVars, branchVars, engVars, orchVars, batchVars, replayVars, heVars, weVars, histVars, valVars, stepVars, throttlerVars>>
notWe == <<cbVars, rdVars, busVars, branchVars, engVars, orchVars, batchVars, replayVars, heVars, pbVars, histVars, valVars, stepVars, throttlerVars>>
notHist == <<cbVars, rdVars, busVars, branchVars, engVars, orchVars, batchVars, replayVars, heVars, pbVars, weVars, valVars, stepVars, throttlerVars>>
notVal == <<cbVars, rdVars, busVars, branchVars, engVars, orchVars, batchVars, replayVars, heVars, pbVars, weVars, histVars, stepVars, throttlerVars>>
notSteps == <<cbVars, rdVars, busVars, branchVars, engVars, orchVars, batchVars, replayVars, heVars, pbVars, weVars, histVars, valVars, throttlerVars>>
notThrottler == <<cbVars, rdVars, busVars, branchVars, engVars, orchVars, batchVars, replayVars, heVars, pbVars, weVars, histVars, valVars, stepVars>>

(***************************************************************************)
(* Bounds                                                                  *)
(***************************************************************************)
MaxTime == 4            \* the clock stops after MaxTime ticks
FailureThreshold == 2   \* circuit_breaker_threshold of the configured nodes
ResetTimeoutMs == 2     \* circuit_breaker_timeout_ms of the configured nodes, in ticks
MaxFailures == FailureThreshold + 1   \* cap of failure_count
MaxRetryCount == 3      \* retry counts 0..MaxRetryCount
MaxMessages == 4        \* messages published to the topic
MaxLiveMessages == 3    \* messages published where delivery in the end is checked
MaxConditions == 2      \* conditions of a branch
MaxBranches == 2        \* branches registered for the workflow
MaxBatchSize == 3        \* largest batch_size of a batcher
timeout_seconds == 2     \* MessageBatcher.timeout_seconds, in ticks
MaxBatchTime == 3        \* the batcher's clock stops after MaxBatchTime ticks
MaxAdded == 4            \* add_message calls
MaxReplayMessages == 3   \* persisted messages
MaxReplays == 2          \* replay sessions
MaxRetries == 2          \* ResilienceConfig.max_retries
MaxHandleErrors == 4     \* handle_error calls for one error
MaxPublishCalls == 3     \* publish calls on the persistent bus
MaxNestedExecutions == 3  \* nested executions started on the registry
MaxThrottlerTime == 4     \* the throttler's clock stops after MaxThrottlerTime ticks
MaxAcquire == 2           \* tokens asked for by one acquire call
MaxEngineTime == 2       \* the engine's clock stops after MaxEngineTime ticks
MaxCallbacks == 2        \* registered workflow update callbacks

Nodes == {"n1", "n2"}
Min(a, b) == IF a <= b THEN a ELSE b
None == 0 - 1

(***************************************************************************)
(* resilience.py: CircuitBreaker                                           *)
(***************************************************************************)
NoBreaker ==
    [exists |-> FALSE, state |-> "closed", failure_count |-> 0,
     last_failure_time |-> None, failure_threshold |-> 0, reset_timeout_ms |-> 0]

\* CircuitBreaker.__init__
NewBreaker(threshold, timeout) ==
    [exists |-> TRUE, state |-> "closed", failure_count |-> 0,
     last_failure_time |-> None, failure_threshold |-> threshold,
     reset_timeout_ms |-> timeout]

\* CircuitBreaker.record_success
record_success(cb) ==
    [cb EXCEPT !.state = IF cb.state = "half-open" THEN "closed" ELSE cb.state,
               !.failure_count = 0]

\* CircuitBreaker.record_failure opening one failure late (> for >=)
record_failure_late(cb, t) ==
    LET n == cb.failure_count + 1
    IN [cb EXCEPT !.failure_count = n,
                  !.last_failure_time = t,
                  !.state = IF n > cb.failure_threshold THEN "open" ELSE cb.state]

\* CircuitBreaker.record_failure
record_failure(cb, t) ==
    LET n == cb.failure_count + 1
    IN [cb EXCEPT !.failure_count = n,
                  !.last_failure_time = t,
                  !.state = IF n >= cb.failure_threshold THEN "open" ELSE cb.state]

\* CircuitBreaker.allow_request: the breaker after the call and the value returned
allow_request(cb, t) ==
    IF cb.state = "closed" THEN [cb |-> cb, result |-> TRUE]
    ELSE IF cb.state = "open" THEN
        IF cb.last_failure_time # None
           /\ t - cb.last_failure_time >= cb.reset_timeout_ms
        THEN [cb |-> [cb EXCEPT !.state = "half-open"], result |-> TRUE]
        ELSE [cb |-> cb, result |-> FALSE]
    ELSE [cb |-> cb, result |-> TRUE]

\* CircuitBreaker.reset
reset(cb) ==
    [cb EXCEPT !.state = "closed", !.failure_count = 0, !.last_failure_time = None]

\* ResilienceManager.should_allow_execution: the breaker table entry after the call
\* and the value returned
should_allow_execution(breakers, node, t) ==
    IF breakers[node].exists
    THEN allow_request(breakers[node], t)
    ELSE [cb |-> breakers[node], result |-> TRUE]

NoCall == [op |-> "none", node |-> "n1", result |-> TRUE]

\* the breaker variables of a manager with no configured node
IdleCb ==
    /\ circuit_breakers = [n \in Nodes |-> NoBreaker]
    /\ now = 0
    /\ cbCall = NoCall
    /\ consec = [n \in Nodes |-> 0]
    /\ lastFail = [n \in Nodes |-> None]
    /\ probes = [n \in Nodes |-> 0]

\* ResilienceManager.configure_node_resilience: creates the breaker once
ConfigureNodeResilience(n) ==
    /\ circuit_breakers' =
          IF circuit_breakers[n].exists THEN circuit_breakers
          ELSE [circuit_breakers EXCEPT ![n] = NewBreaker(FailureThreshold, ResetTimeoutMs)]
    /\ cbCall' = [op |-> "configure", node |-> n, result |-> TRUE]
    /\ UNCHANGED <<now, consec, lastFail, probes, notCb>>

\* ResilienceManager.record_success(node)
RecordSuccess(n) ==
    /\ circuit_breakers' =
          IF circuit_breakers[n].exists
          THEN [circuit_breakers EXCEPT ![n] = record_success(@)]
          ELSE circuit_breakers
    /\ cbCall' = [op |-> "success", node |-> n, result |-> TRUE]
    /\ consec' = [consec EXCEPT ![n] = 0]
    /\ probes' = [probes EXCEPT ![n] = 0]
    /\ UNCHANGED <<now, lastFail, notCb>>

\* the breaker part of ResilienceManager.handle_error: record_failure on the node's breaker
RecordFailure(n) ==
    /\ circuit_breakers[n].failure_count < MaxFailures
    /\ circuit_breakers' =
          IF circuit_breakers[n].exists
          THEN [circuit_breakers EXCEPT ![n] = record_failure(@, now)]
          ELSE circuit_breakers
    /\ cbCall' = [op |-> "failure", node |-> n, result |-> TRUE]
    /\ consec' = [consec EXCEPT ![n] = IF circuit_breakers[n].exists THEN @ + 1 ELSE @]
    /\ lastFail' = [lastFail EXCEPT ![n] = IF circuit_breakers[n].exists THEN now ELSE @]
    /\ probes' = [probes EXCEPT ![n] = 0]
    /\ UNCHANGED <<now, notCb>>

\* ResilienceManager.should_allow_execution(node)
ShouldAllowExecution(n) ==
    LET r == should_allow_execution(circuit_breakers, n, now)
    IN /\ circuit_breakers' = [circuit_breakers EXCEPT ![n] = r.cb]
       /\ cbCall' = [op |-> "allow", node |-> n, result |-> r.result]
       /\ probes' = [probes EXCEPT ![n] =
                          IF circuit_breakers[n].exists
                             /\ circuit_breakers[n].state # "closed" /\ r.result
                          THEN Min(@ + 1, 2) ELSE @]
       /\ UNCHANGED <<now, consec, lastFail, notCb>>

\* CircuitBreaker.reset on the node's breaker
ResetBreaker(n) ==
    /\ circuit_breakers[n].exists
    /\ circuit_breakers' = [circuit_breakers EXCEPT ![n] = reset(@)]
    /\ cbCall' = [op |-> "reset", node |-> n, result |-> TRUE]
    /\ consec' = [consec EXCEPT ![n] = 0]
    /\ lastFail' = [lastFail EXCEPT ![n] = None]
    /\ probes' = [probes EXCEPT ![n] = 0]
    /\ UNCHANGED <<now, notCb>>

\* time passes
Tick ==
    /\ now < MaxTime
    /\ now' = now + 1
    /\ cbCall' = [cbCall EXCEPT !.op = "tick"]
    /\ UNCHANGED <<circuit_breakers, consec, lastFail, probes, notCb>>

(***************************************************************************)
(* resilience.py: ResilienceManager.calculate_retry_delay_ms               *)
(***************************************************************************)
Strategies == {"immediate", "fixed_delay", "exponential_backoff",
               "linear_backoff", "random_delay"}

\* 2 ** n
RECURSIVE Pow2(_)
Pow2(n) == IF n <= 0 THEN 1 ELSE 2 * Pow2(n - 1)

\* the values random.randint(a, b) can return (empty: randint raises ValueError)
RandInt(a, b) == a..b

\* the delay before jitter and cap: exponential backoff without the power of two
BaseDelays_linearExp(retry_count, config) ==
    CASE config.retry_strategy = "fixed_delay" -> {config.initial_delay_ms}
      [] config.retry_strategy = "exponential_backoff" ->
            {config.initial_delay_ms * 2 * retry_count}
      [] config.retry_strategy = "linear_backoff" ->
            {config.initial_delay_ms * (retry_count + 1)}
      [] config.retry_strategy = "random_delay" ->
            RandInt(config.initial_delay_ms, config.max_delay_ms)
      [] OTHER -> {config.initial_delay_ms}

\* the delay before jitter and cap, one value per outcome of the random draw
BaseDelays(retry_count, config) ==
    CASE config.retry_strategy = "fixed_delay" -> {config.initial_delay_ms}
      [] config.retry_strategy = "exponential_backoff" ->
            {config.initial_delay_ms * Pow2(retry_count)}
      [] config.retry_strategy = "linear_backoff" ->
            {config.initial_delay_ms * (retry_count + 1)}
      [] config.retry_strategy = "random_delay" ->
            RandInt(config.initial_delay_ms, config.max_delay_ms)
      [] OTHER -> {config.initial_delay_ms}

\* the jitter values added to the delay
Jitters(config) ==
    IF config.jitter_ms > 0 THEN RandInt(-config.jitter_ms, config.jitter_ms) ELSE {0}

\* calculate_retry_delay_ms: the set of possible outcomes, "raise" when
\* random.randint is called on an empty range
calculate_retry_delay_ms(retry_count, config) ==
    IF config.retry_strategy = "immediate"
    THEN {[kind |-> "return", delay |-> 0]}
    ELSE IF BaseDelays(retry_count, config) = {}
    THEN {[kind |-> "raise", delay |-> 0]}
    ELSE {[kind |-> "return", delay |-> Min(d + j, config.max_delay_ms)] :
              d \in BaseDelays(retry_count, config), j \in Jitters(config)}

\* configurations: every combination of small values, and the documented
\* example (base 1000 ms) for the deterministic strategies
SmallConfigs ==
    [retry_strategy : Strategies, initial_delay_ms : {1, 2, 3},
     max_delay_ms : {2, 5, 30}, jitter_ms : {0, 1, 2}]
ExampleConfigs ==
    [retry_strategy : Strategies \ {"random_delay"}, initial_delay_ms : {1000},
     max_delay_ms : {3000, 8000, 30000}, jitter_ms : {0, 500}]
RetryConfigs == SmallConfigs \cup {c \in ExampleConfigs : c.jitter_ms = 0}

NoResult == [kind |-> "none", delay |-> 0]

\* ResilienceConfig.__init__ defaults, in ticks
DefaultConfig ==
    [retry_strategy |-> "exponential_backoff", initial_delay_ms |-> 1,
     max_delay_ms |-> 30, jitter_ms |-> 0]

\* the retry-delay variables when no call is under test
IdleRd ==
    /\ rdConfig = DefaultConfig
    /\ rdCount = 0
    /\ rdResult = NoResult

\* one call of calculate_retry_delay_ms(retry_count, config)
CalculateRetryDelay ==
    /\ \E n \in 0..MaxRetryCount :
          /\ rdCount' = n
          /\ rdResult' \in calculate_retry_delay_ms(n, rdConfig)
    /\ UNCHANGED <<rdConfig, notRd>>

(***************************************************************************)
(* priority_messaging.py: PriorityMessageBus on one topic, run by the      *)
(* asyncio event loop (a FIFO queue of ready handles)                      *)
(***************************************************************************)
\* priority used by publish: PriorityMessage.priority, 5 for a plain AppletMessage
priority_of(message) == IF message.isPriority THEN message.priority ELSE 5

\* the messages a caller can publish: a plain AppletMessage or a PriorityMessage
MessageKinds ==
    {[isPriority |-> FALSE, priority |-> 0]}
        \cup {[isPriority |-> TRUE, priority |-> p] : p \in {9}}

\* a < b on the heap entries (-priority, timestamp, message): tuple comparison;
\* entries equal in priority and timestamp compare the messages, which define
\* no ordering (TypeError) unless they are the same message
TupleLt(a, b) ==
    IF a.negp # b.negp THEN (IF a.negp < b.negp THEN "lt" ELSE "ge")
    ELSE IF a.ts # b.ts THEN (IF a.ts < b.ts THEN "lt" ELSE "ge")
    ELSE IF a.msg = b.msg THEN "ge" ELSE "raise"

Swap(h, i, j) == [h EXCEPT ![i] = h[j], ![j] = h[i]]

\* heapq _siftdown (positions from 1): moves h[pos] up while it is smaller than
\* its parent; a failed comparison leaves the list as it is at that moment
RECURSIVE siftdown(_, _, _)
siftdown(h, startpos, pos) ==
    IF pos <= startpos THEN [heap |-> h, raised |-> FALSE]
    ELSE LET parentpos == pos \div 2
             c == TupleLt(h[pos], h[parentpos])
         IN IF c = "raise" THEN [heap |-> h, raised |-> TRUE]
            ELSE IF c = "lt" THEN siftdown(Swap(h, pos, parentpos), startpos, parentpos)
            ELSE [heap |-> h, raised |-> FALSE]

\* heapq _siftup: bubbles the smaller child up until a leaf is hit, then sifts
\* the displaced entry down from there
RECURSIVE siftup(_, _, _)
siftup(h, startpos, pos) ==
    IF pos > Len(h) \div 2 THEN siftdown(h, startpos, pos)
    ELSE LET childpos == 2 * pos
             c == IF childpos + 1 <= Len(h)
                  THEN TupleLt(h[childpos], h[childpos + 1]) ELSE "lt"
             smaller == IF c = "lt" THEN childpos ELSE childpos + 1
         IN IF c = "raise" THEN [heap |-> h, raised |-> TRUE]
            ELSE siftup(Swap(h, smaller, pos), startpos, smaller)

\* heapq.heappush(heap, item)
heappush(h, item) == siftdown(Append(h, item), 1, Len(h) + 1)

\* heapq.heappop(heap) on a non-empty heap: the list afterwards, the entry
\* returned, and whether a comparison raised (the entry taken from the top is
\* then returned to nobody)
heappop(h) ==
    LET lastelt == h[Len(h)]
        rest == SubSeq(h, 1, Len(h) - 1)
    IN IF rest = << >> THEN [heap |-> rest, item |-> lastelt, raised |-> FALSE]
       ELSE LET r == siftup([rest EXCEPT ![1] = lastelt], 1, 1)
            IN [heap |-> r.heap, item |-> h[1], raised |-> r.raised]

\* the handles of the event loop: the first step of a _process_queue task, the
\* first step of a callback task, the done-callback gather attached to a
\* callback task, and the wakeup of a _process_queue task waiting in gather
StartHandle(d) == [k |-> "start", d |-> d, msg |-> 0, sub |-> "", seen |-> 0, ok |-> TRUE]
WakeHandle(d) == [k |-> "wake", d |-> d, msg |-> 0, sub |-> "", seen |-> 0, ok |-> TRUE]
CallbackHandle(d, m, s, n) ==
    [k |-> "cb", d |-> d, msg |-> m, sub |-> s, seen |-> n, ok |-> TRUE]
DoneHandle(d, ok) == [k |-> "done", d |-> d, msg |-> 0, sub |-> "", seen |-> 0, ok |-> ok]

\* a _process_queue task: not created, created, waiting in gather for nleft
\* callbacks, or finished
NoTask == [st |-> "none", nleft |-> 0, err |-> FALSE]

\* the bus variables of a bus nobody has published to
IdleBus ==
    /\ priority_queues = << >>
    /\ is_processing = FALSE
    /\ message_history = << >>
    /\ subscribers = << >>
    /\ busClock = 0
    /\ ready = << >>
    /\ tasks = [d \in 1..MaxMessages |-> NoTask]
    /\ delivered = << >>
    /\ publishRaised = {}

\* PriorityMessageBus.publish(topic, message) at a time the clock reads
\* busClock + dt: no await inside, so one step of the event loop
PriorityPublish(message, dt) ==
    LET id == Len(message_history) + 1
        r == heappush(priority_queues,
                      [negp |-> 0 - priority_of(message), ts |-> busClock + dt, msg |-> id])
    IN /\ id <= MaxMessages
       /\ message_history' = Append(message_history, message)
       /\ busClock' = busClock + dt
       /\ priority_queues' = r.heap
       /\ publishRaised' = IF r.raised THEN publishRaised \cup {id} ELSE publishRaised
       /\ IF ~r.raised /\ ~is_processing
          THEN /\ ready' = Append(ready, StartHandle(id))
               /\ tasks' = [tasks EXCEPT ![id] = [NoTask EXCEPT !.st = "created"]]
          ELSE UNCHANGED <<ready, tasks>>
       /\ UNCHANGED <<is_processing, subscribers, delivered>>

\* a publish call on the priority bus itself
Publish(message, dt) == PriorityPublish(message, dt) /\ UNCHANGED notBus

\* the callback tasks _process_queue creates for a popped message, in
\* subscriber order
DeliveryTasks(d, m) ==
    [i \in 1..Len(subscribers) |->
        CallbackHandle(d, m, subscribers[i], Len(message_history))]

\* _process_queue from the top of its while loop up to its next suspension:
\* the queue, the handles created, and the task afterwards
RECURSIVE process_queue_loop(_, _)
process_queue_loop(d, queue) ==
    IF queue = << >>
    THEN [queue |-> queue, created |-> << >>, task |-> [NoTask EXCEPT !.st = "finished"]]
    ELSE LET p == heappop(queue)
         IN IF p.raised
            THEN [queue |-> p.heap, created |-> << >>,
                  task |-> [st |-> "finished", nleft |-> 0, err |-> TRUE]]
            ELSE IF subscribers = << >>
            THEN process_queue_loop(d, p.heap)
            ELSE [queue |-> p.heap, created |-> DeliveryTasks(d, p.item.msg),
                  task |-> [st |-> "waiting", nleft |-> Len(subscribers), err |-> FALSE]]

\* the event loop runs the first step of a _process_queue task
ProcessQueueStart ==
    /\ ready # << >>
    /\ Head(ready).k = "start"
    /\ LET d == Head(ready).d
           r == process_queue_loop(d, priority_queues)
       IN /\ priority_queues' = r.queue
          /\ ready' = Tail(ready) \o r.created
          /\ tasks' = [tasks EXCEPT ![d] = r.task]
          /\ is_processing' = (r.task.st # "finished")
    /\ UNCHANGED <<message_history, subscribers, busClock, delivered, publishRaised, notBus>>

\* the event loop resumes a _process_queue task after gather: an exception of a
\* callback ends the task through the finally clause, a result continues the loop
ProcessQueueWake ==
    /\ ready # << >>
    /\ Head(ready).k = "wake"
    /\ LET d == Head(ready).d
           r == IF tasks[d].err
                THEN [queue |-> priority_queues, created |-> << >>,
                      task |-> [st |-> "finished", nleft |-> 0, err |-> TRUE]]
                ELSE process_queue_loop(d, priority_queues)
       IN /\ priority_queues' = r.queue
          /\ ready' = Tail(ready) \o r.created
          /\ tasks' = [tasks EXCEPT ![d] = r.task]
          /\ is_processing' = (r.task.st # "finished")
    /\ UNCHANGED <<message_history, subscribers, busClock, delivered, publishRaised, notBus>>

\* the event loop runs a callback task: the subscriber receives the message and
\* returns or raises
Callback(ok) ==
    /\ ready # << >>
    /\ Head(ready).k = "cb"
    /\ LET h == Head(ready)
       IN /\ delivered' = Append(delivered, [msg |-> h.msg, sub |-> h.sub, seen |-> h.seen])
          /\ ready' = Append(Tail(ready), DoneHandle(h.d, ok))
    /\ UNCHANGED <<priority_queues, is_processing, message_history, subscribers,
                   busClock, tasks, publishRaised, notBus>>

\* gather's done-callback for one callback task: the first exception, or the
\* last result, completes gather and schedules the waiting task
GatherDone ==
    /\ ready # << >>
    /\ Head(ready).k = "done"
    /\ LET h == Head(ready)
           t == tasks[h.d]
       IN IF t.st # "waiting" THEN
              /\ ready' = Tail(ready)
              /\ UNCHANGED tasks
          ELSE IF ~h.ok THEN
              /\ ready' = Append(Tail(ready), WakeHandle(h.d))
              /\ tasks' = [tasks EXCEPT ![h.d] = [st |-> "woken", nleft |-> 0, err |-> TRUE]]
          ELSE IF t.nleft = 1 THEN
              /\ ready' = Append(Tail(ready), WakeHandle(h.d))
              /\ tasks' = [tasks EXCEPT ![h.d] = [st |-> "woken", nleft |-> 0, err |-> FALSE]]
          ELSE
              /\ ready' = Tail(ready)
              /\ tasks' = [tasks EXCEPT ![h.d].nleft = @ - 1]
    /\ UNCHANGED <<priority_queues, is_processing, message_history, subscribers,
                   busClock, delivered, publishRaised, notBus>>

(***************************************************************************)
(* persistent_messaging.py: PersistentMessageBus.publish.  The call awaits *)
(* repository.save_message, an external coroutine, and then runs the       *)
(* publish of the priority bus; several calls can be waiting for their     *)
(* save at once.                                                           *)
(***************************************************************************)
IdlePb == publishCalls = << >>

\* publish(topic, message) is called and suspends in repository.save_message
PersistentPublish(message) ==
    /\ Len(publishCalls) < MaxPublishCalls
    /\ publishCalls' = Append(publishCalls,
                              [message |-> message, save |-> "pending", id |-> 0,
                               raised |-> FALSE])
    /\ UNCHANGED <<busVars, notPb>>

\* save_message returns an id (stored in message.metadata) or raises (logged);
\* either way the call goes on with PriorityMessageBus.publish, at a time the
\* clock reads busClock + dt
SaveReturns(k, ok, dt) ==
    /\ k \in 1..Len(publishCalls)
    /\ publishCalls[k].save = "pending"
    /\ PriorityPublish(publishCalls[k].message, dt)
    /\ publishCalls' =
           [publishCalls EXCEPT
               ![k] = [message |-> @.message,
                       save |-> IF ok THEN "saved" ELSE "failed",
                       id |-> Len(message_history) + 1,
                       raised |-> (Len(message_history) + 1) \in publishRaised']]
    /\ UNCHANGED notPb

(***************************************************************************)
(* conditional_branching.py: ConditionalBranchingEngine                    *)
(***************************************************************************)
\* Python values: strings are sequences of characters; NoneValue is None
IntValue(i) == [t |-> "int", v |-> i]
StrValue(s) == [t |-> "str", v |-> s]
NoneValue == [t |-> "none", v |-> 0]

\* str.lower() on the characters of the model
LowerChar(c) == IF c = "A" THEN "a" ELSE c
Lower(s) == [i \in 1..Len(s) |-> LowerChar(s[i])]

\* t in s, s.startswith(t), s.endswith(t) on strings
StrContains(s, t) ==
    \E i \in 0..(Len(s) - Len(t)) : SubSeq(s, i + 1, i + Len(t)) = t
StrStartsWith(s, t) == Len(t) <= Len(s) /\ SubSeq(s, 1, Len(t)) = t
StrEndsWith(s, t) == Len(t) <= Len(s) /\ SubSeq(s, Len(s) - Len(t) + 1, Len(s)) = t

\* the code point order of the characters of the model
CharOrd(c) == CASE c = "A" -> 65 [] c = "a" -> 97 [] c = "b" -> 98 [] OTHER -> 0

\* s < t on strings
RECURSIVE StrLt(_, _)
StrLt(s, t) ==
    IF t = << >> THEN FALSE
    ELSE IF s = << >> THEN TRUE
    ELSE IF Head(s) # Head(t) THEN CharOrd(Head(s)) < CharOrd(Head(t))
    ELSE StrLt(Tail(s), Tail(t))

\* value < target: defined on two ints and on two strings, TypeError otherwise
ValueLt(a, b) ==
    IF a.t = "int" /\ b.t = "int" THEN (IF a.v < b.v THEN "true" ELSE "false")
    ELSE IF a.t = "str" /\ b.t = "str" THEN (IF StrLt(a.v, b.v) THEN "true" ELSE "false")
    ELSE "raise"

Truth(b) == IF b THEN "true" ELSE "false"

\* _compare_values: "true", "false", or "raise" when Python cannot order the values
compare_values(value, target, comparison) ==
    CASE comparison \in {"none", "eq"} -> Truth(value = target)
      [] comparison = "neq" -> Truth(value # target)
      [] comparison = "gt" -> ValueLt(target, value)
      [] comparison = "gte" ->
            IF ValueLt(value, target) = "raise" THEN "raise"
            ELSE Truth(ValueLt(value, target) = "false")
      [] comparison = "lt" -> ValueLt(value, target)
      [] comparison = "lte" ->
            IF ValueLt(target, value) = "raise" THEN "raise"
            ELSE Truth(ValueLt(target, value) = "false")
      [] comparison = "contains" ->
            Truth(value.t = "str" /\ target.t = "str" /\ StrContains(value.v, target.v))
      [] comparison = "startswith" ->
            Truth(value.t = "str" /\ target.t = "str" /\ StrStartsWith(value.v, target.v))
      [] comparison = "endswith" ->
            Truth(value.t = "str" /\ target.t = "str" /\ StrEndsWith(value.v, target.v))
      [] OTHER -> "false"

\* a check of one key of a metadata or context map (the map a function from the
\* keys present to their values)
check_map(map, key, target, comparison) ==
    IF key \notin DOMAIN map THEN "false"
    ELSE compare_values(map[key], target, comparison)

\* evaluate_condition(condition, message): "true", "false" or "raise".  A regex
\* pattern of the model is a literal, so search is a substring test; a custom
\* condition is given by what the callable does (custom: "none" for no
\* callable, "true", "false", "raise")
evaluate_condition(condition, message) ==
    CASE condition.condition_type = "always" -> "true"
      [] condition.condition_type = "content_match" ->
            IF message.content.t # "str" THEN "false"
            ELSE IF condition.content_pattern.t # "str" THEN "raise"
            ELSE IF condition.case_sensitive
                 THEN Truth(StrContains(message.content.v, condition.content_pattern.v))
                 ELSE Truth(StrContains(Lower(message.content.v),
                                        Lower(condition.content_pattern.v)))
      [] condition.condition_type = "metadata_check" ->
            check_map(message.metadata, condition.key, condition.value, condition.comparison)
      [] condition.condition_type = "context_check" ->
            check_map(message.context, condition.key, condition.value, condition.comparison)
      [] condition.condition_type = "custom" ->
            IF condition.custom = "true" THEN "true" ELSE "false"
      [] OTHER -> "false"

\* no step (Python None)
NoStep == "none"

\* evaluate_branch returning the target of the last matching condition
RECURSIVE evaluate_branch_last(_, _)
evaluate_branch_last(branch, message) ==
    IF branch.conditions = << >> THEN branch.default_target_step_id
    ELSE LET n == Len(branch.conditions)
         IN IF evaluate_condition(branch.conditions[n], message) = "true"
            THEN branch.conditions[n].target_step_id
            ELSE evaluate_branch_last(
                     [branch EXCEPT !.conditions = SubSeq(branch.conditions, 1, n - 1)],
                     message)

\* evaluate_branch(branch, message): the conditions in order, an exception of
\* evaluate_condition logged and skipped, the default target at the end
RECURSIVE evaluate_branch(_, _)
evaluate_branch(branch, message) ==
    IF branch.conditions = << >> THEN branch.default_target_step_id
    ELSE IF evaluate_condition(Head(branch.conditions), message) = "true"
    THEN Head(branch.conditions).target_step_id
    ELSE evaluate_branch([branch EXCEPT !.conditions = Tail(branch.conditions)], message)

\* get_branches_from_step
get_branches_from_step(branches, step_id) ==
    SelectSeq(branches, LAMBDA b : b.source_step_id = step_id)

\* get_next_step on the branches of one workflow: the first branch from the
\* step that yields a step
RECURSIVE next_step_of(_, _)
next_step_of(branches, message) ==
    IF branches = << >> THEN NoStep
    ELSE IF evaluate_branch(Head(branches), message) # NoStep
    THEN evaluate_branch(Head(branches), message)
    ELSE next_step_of(Tail(branches), message)

get_next_step(branches, current_step_id, message) ==
    next_step_of(get_branches_from_step(branches, current_step_id), message)

\* the conditions of the model; each routes to a step of its own
Condition(type, target, pattern, cs, key, value, comparison, custom) ==
    [condition_type |-> type, target_step_id |-> target, content_pattern |-> pattern,
     case_sensitive |-> cs, key |-> key, value |-> value, comparison |-> comparison,
     custom |-> custom]
BranchConditions ==
    { Condition("always", "tAlways", NoneValue, TRUE, "k", NoneValue, "none", "none"),
      Condition("content_match", "tContent", StrValue(<<"a">>), FALSE, "k", NoneValue,
                "none", "none"),
      Condition("metadata_check", "tGt", NoneValue, TRUE, "k", IntValue(1), "gt", "none"),
      Condition("context_check", "tStarts", NoneValue, TRUE, "k", StrValue(<<"a">>),
                "startswith", "none"),
      Condition("custom", "tRaise", NoneValue, TRUE, "k", NoneValue, "none", "raise") }

\* the messages of the model
NoMap == [k \in {} |-> NoneValue]
BranchMessages ==
    { [content |-> StrValue(<<"A", "b">>), metadata |-> NoMap, context |-> NoMap],
      [content |-> NoneValue, metadata |-> [k \in {"k"} |-> IntValue(2)], context |-> NoMap],
      [content |-> StrValue(<<"A", "b">>), metadata |-> [k \in {"k"} |-> StrValue(<<"a">>)],
       context |-> [k \in {"k"} |-> StrValue(<<"a", "b">>)]] }

\* the branches a caller can register: up to MaxConditions conditions
ConditionLists ==
    UNION {[1..n -> BranchConditions] : n \in 0..MaxConditions}
Branches ==
    [source_step_id : {"s1", "s2"}, conditions : ConditionLists,
     default_target_step_id : {NoStep, "tDefault"}]

NoBranchCall ==
    [op |-> "none", branch |-> 0, condition |-> 0, step |-> "", message |-> 0,
     result |-> NoStep]

\* the branching variables of an engine with no branch registered
IdleBranch ==
    /\ workflow_branches = << >>
    /\ brCall = NoBranchCall

\* register_branch(workflow_id, branch) on the workflow of the model
RegisterBranch(branch) ==
    /\ Len(workflow_branches) < MaxBranches
    /\ workflow_branches' = Append(workflow_branches, branch)
    /\ brCall' = NoBranchCall
    /\ UNCHANGED notBranch

\* evaluate_branch(branch, message) on a registered branch
EvaluateBranch(i, message) ==
    /\ i \in 1..Len(workflow_branches)
    /\ brCall' = [op |-> "evaluate_branch", branch |-> i, condition |-> 0, step |-> "",
                  message |-> message,
                  result |-> evaluate_branch(workflow_branches[i], message)]
    /\ UNCHANGED <<workflow_branches, notBranch>>

\* evaluate_condition(condition, message) on a condition of a registered branch
EvaluateCondition(i, j, message) ==
    /\ i \in 1..Len(workflow_branches)
    /\ j \in 1..Len(workflow_branches[i].conditions)
    /\ brCall' = [op |-> "evaluate_condition", branch |-> i, condition |-> j, step |-> "",
                  message |-> message,
                  result |-> evaluate_condition(workflow_branches[i].conditions[j], message)]
    /\ UNCHANGED <<workflow_branches, notBranch>>

\* get_next_step(workflow_id, current_step_id, message)
GetNextStep(step, message) ==
    /\ brCall' = [op |-> "get_next_step", branch |-> 0, condition |-> 0, step |-> step,
                  message |-> message,
                  result |-> get_next_step(workflow_branches, step, message)]
    /\ UNCHANGED <<workflow_branches, notBranch>>

(***************************************************************************)
(* Enhanced workflow engine and nested workflow engine                     *)
(* (workflow/workflow_engine_extensions.py, workflow/nested_workflows.py). *)
(* Two workflows: the parent P (start p0, agent step p1, nested step p2    *)
(* that runs the child C, agent step p3) and the child C (start c0, agent  *)
(* step c1).  The sources call execute_workflow(id, message),              *)
(* get_execution_context, _get_workflow and the edge lookup of the base    *)
(* engine without defining them; these follow the description of the       *)
(* engine's state machine and API.                                         *)
(***************************************************************************)
CtxKeys == {"x", "z", "cx", "y"}
Absent == "absent"
Values == {"v1", "v2", "v3"}

\* a message is its context map; NoMessage is Python None
NoMessage == [none |-> TRUE, context |-> [k \in CtxKeys |-> Absent]]
Message(context) == [none |-> FALSE, context |-> context]

\* the execution context of a workflow
NoContext == [exists |-> FALSE, current_step_id |-> NoStep, current_message |-> NoMessage]
NewContext(step_id, message) ==
    [exists |-> TRUE, current_step_id |-> step_id, current_message |-> message]

WorkflowIds == {"P", "C", "G"}
EngineWorkflows ==
    [P |-> [found |-> TRUE, steps |-> {"p0", "p1", "p2", "p3"},
            edges |-> << <<"p0", "p1">>, <<"p1", "p2">>, <<"p2", "p3">> >>],
     C |-> [found |-> TRUE, steps |-> {"c0", "c1"},
            edges |-> << <<"c0", "c1">> >>],
     G |-> [found |-> TRUE, steps |-> {"g0", "g1"},
            edges |-> << <<"g0", "g1">> >>]]
NoWorkflow == [found |-> FALSE, steps |-> {}, edges |-> << >>]

\* the nested step of P: NestedWorkflowStep(step_id, child_workflow_id,
\* context_mapping {x: cx}, result_mapping {y: x})
NestedStepIds == {"p2"}
NestedWorkflowStep ==
    [child_workflow_id |-> "C",
     context_mapping |-> << <<"x", "cx">> >>,
     result_mapping |-> << <<"y", "x">> >>]

\* the steps of P and C that can be NestedWorkflowSteps: p2 as above, and c1
\* running the workflow G with result_mapping {y: y}
NestedWorkflowStepOf(step_id) ==
    IF step_id = "c1"
    THEN [child_workflow_id |-> "G", context_mapping |-> << >>,
          result_mapping |-> << <<"y", "y">> >>]
    ELSE NestedWorkflowStep

\* NestedWorkflowContext as execute_nested_workflow builds it
NestedWorkflowContext(parent_workflow_id, parent_step_id, step) ==
    [parent_workflow_id |-> parent_workflow_id, parent_step_id |-> parent_step_id,
     child_workflow_id |-> step.child_workflow_id, status |-> "pending",
     context_mapping |-> step.context_mapping, result_mapping |-> step.result_mapping,
     result_message |-> NoMessage, end_time |-> -1]

\* engine API: get_execution_context(workflow_id)
get_execution_context(workflow_id) == engine_contexts[workflow_id]

\* engine API: _get_workflow(workflow_id), None for an unknown id
get_workflow(workflow_id) ==
    IF workflow_id \in workflows THEN EngineWorkflows[workflow_id] ELSE NoWorkflow

\* the start step: the step without incoming edge
start_step(workflow) ==
    CHOOSE s \in workflow.steps :
        \A i \in 1..Len(workflow.edges) : workflow.edges[i][2] # s

\* base engine: the next step along the edges
RECURSIVE base_get_next_step(_, _)
base_get_next_step(edges, current_step_id) ==
    IF edges = << >> THEN NoStep
    ELSE IF edges[1][1] = current_step_id THEN edges[1][2]
    ELSE base_get_next_step(Tail(edges), current_step_id)

\* EnhancedWorkflowEngine._get_next_step: a conditional branch first, the
\* base engine's next step otherwise
\* EnhancedWorkflowEngine._get_next_step on the branches registered for a
\* workflow and the workflow's edges: the step a branch yields, else the base
\* engine's edge lookup
enhanced_get_next_step(branches, edges, current_step_id, message) ==
    LET next_step == get_next_step(branches, current_step_id, message)
    IN IF next_step # NoStep THEN next_step
       ELSE base_get_next_step(edges, current_step_id)

engine_get_next_step(workflow_id, current_step_id, message) ==
    enhanced_get_next_step(workflow_branches, get_workflow(workflow_id).edges,
                           current_step_id, message)

\* the edges of the workflow the branches of the model are registered for
BranchWorkflowEdges == << <<"s1", "s2">> >>

\* _get_next_step(workflow_id, current_step_id, message) of the enhanced engine
\* on the workflow with the registered branches
EngineGetNextStep(step, message) ==
    /\ brCall' = [op |-> "_get_next_step", branch |-> 0, condition |-> 0, step |-> step,
                  message |-> message,
                  result |-> enhanced_get_next_step(workflow_branches, BranchWorkflowEdges,
                                                    step, message)]
    /\ UNCHANGED <<workflow_branches, notBranch>>

\* the loops over a mapping of _prepare_child_input and _prepare_parent_result:
\* target[to] = source[from] for every pair whose from-key is in the source
RECURSIVE map_context(_, _, _)
map_context(target, source, mapping) ==
    IF mapping = << >> THEN target
    ELSE map_context(
             IF source[mapping[1][1]] # Absent
             THEN [target EXCEPT ![mapping[1][2]] = source[mapping[1][1]]]
             ELSE target,
             source, Tail(mapping))

\* _prepare_child_input(message, context): a copy of the message with the
\* mapped keys of the parent's current message
prepare_child_input(message, context) ==
    LET parent_context == get_execution_context(context.parent_workflow_id)
    IN IF parent_context.exists /\ ~parent_context.current_message.none
       THEN [message EXCEPT !.context =
                map_context(message.context, parent_context.current_message.context,
                            context.context_mapping)]
       ELSE message

\* _prepare_parent_result with the result mapping read as parent key -> child key
prepare_parent_result_reversed(parent_message, child_message, context) ==
    [parent_message EXCEPT !.context =
        map_context(parent_message.context, child_message.context,
                    [i \in 1..Len(context.result_mapping) |->
                        <<context.result_mapping[i][2], context.result_mapping[i][1]>>])]

\* _prepare_parent_result(parent_message, child_message, context): a copy of
\* the parent message with the mapped keys of the child's result
prepare_parent_result(parent_message, child_message, context) ==
    [parent_message EXCEPT !.context =
        map_context(parent_message.context, child_message.context,
                    context.result_mapping)]

\* what the external executor of an agent step does with its input: it raises,
\* or it returns the message with one context key set
NoOutcome == [raise |-> FALSE, key |-> "z", value |-> Absent]
StepOutcomes(step_id) ==
    IF step_id = "p1"
    THEN {[raise |-> TRUE, key |-> "x", value |-> Absent],
          [raise |-> FALSE, key |-> "x", value |-> "v2"],
          [raise |-> FALSE, key |-> "z", value |-> "v2"]}
    ELSE IF step_id = "c1"
    THEN {[raise |-> TRUE, key |-> "y", value |-> Absent],
          [raise |-> FALSE, key |-> "cx", value |-> "v1"]}
         \cup {[raise |-> FALSE, key |-> "y", value |-> v] : v \in Values}
    ELSE IF step_id = "p3"
    THEN {[raise |-> TRUE, key |-> "z", value |-> Absent],
          [raise |-> FALSE, key |-> "z", value |-> "v2"]}
    ELSE IF step_id = "g1"
    THEN {[raise |-> TRUE, key |-> "y", value |-> Absent],
          [raise |-> FALSE, key |-> "y", value |-> "v1"]}
    ELSE {NoOutcome}

\* execute_step(workflow_id, step_id, message): None for an unknown workflow or
\* step, for a nested step (launch: the step has started a nested execution)
\* and for a step whose execute raised
execute_step(workflow_id, step_id, message, outcome) ==
    IF ~get_workflow(workflow_id).found \/ step_id \notin get_workflow(workflow_id).steps
    THEN [result |-> NoMessage, launch |-> FALSE, raised |-> FALSE]
    ELSE IF step_id \in nested_steps
    THEN [result |-> NoMessage, launch |-> TRUE, raised |-> FALSE]
    ELSE IF outcome.raise
    THEN [result |-> NoMessage, launch |-> FALSE, raised |-> TRUE]
    ELSE [result |-> [message EXCEPT !.context[outcome.key] = outcome.value],
          launch |-> FALSE, raised |-> FALSE]

\* the pass of the loop once the next step is known and execute_step has
\* returned r for it
continue_after_step(workflow_id, context, next_step_id, r) ==
    LET stepped == [context EXCEPT !.current_step_id = next_step_id]
        executed == IF next_step_id \in get_workflow(workflow_id).steps
                    THEN next_step_id ELSE NoStep
    IN IF ~get_workflow(workflow_id).found
       THEN [context |-> context, returned |-> TRUE, value |-> NoMessage,
             launch |-> FALSE, raised |-> FALSE, executed |-> NoStep]
       ELSE IF context.current_step_id = NoStep \/ next_step_id = NoStep
       THEN [context |-> context, returned |-> TRUE, value |-> context.current_message,
             launch |-> FALSE, raised |-> FALSE, executed |-> NoStep]
       ELSE IF r.result.none
       THEN [context |-> stepped, returned |-> TRUE, value |-> NoMessage,
             launch |-> r.launch, raised |-> r.raised, executed |-> executed]
       ELSE [context |-> [stepped EXCEPT !.current_message = r.result],
             returned |-> FALSE, value |-> NoMessage, launch |-> FALSE,
             raised |-> FALSE, executed |-> executed]

\* the pass of the loop once _get_next_step has returned next_step_id
continue_with_next_step(workflow_id, context, outcome, next_step_id) ==
    continue_after_step(workflow_id, context, next_step_id,
                        execute_step(workflow_id, next_step_id, context.current_message,
                                     outcome))

\* one pass of the loop of _continue_workflow_execution on a context: the
\* context afterwards, whether the loop returned and what, and whether the
\* executed step launched a nested execution or raised
continue_workflow_execution(workflow_id, context, outcome) ==
    continue_with_next_step(workflow_id, context, outcome,
                            engine_get_next_step(workflow_id, context.current_step_id,
                                                 context.current_message))

\* the step the next pass of the loop on a workflow executes
UpcomingStep(workflow_id) ==
    engine_get_next_step(workflow_id, engine_contexts[workflow_id].current_step_id,
                         engine_contexts[workflow_id].current_message)

NoTrace ==
    [parent_at_launch |-> NoMessage, child_failed |-> FALSE, resumed |-> FALSE,
     parent_held |-> NoMessage, resumed_with |-> NoMessage, cancelled |-> FALSE]

\* the engine state after a pass r of the loop on a workflow; a launch is
\* execute_nested_workflow: the context is stored and the child's task created
\* with the prepared input
AfterPass(workflow_id, r) ==
    LET contexts == [engine_contexts EXCEPT ![workflow_id] = r.context]
        context == NestedWorkflowContext(workflow_id, r.context.current_step_id,
                                         NestedWorkflowStepOf(r.context.current_step_id))
        invoked == IF r.executed # NoStep
                   THEN Append(invocations, <<workflow_id, r.executed>>)
                   ELSE invocations
    IN IF r.launch
       THEN [contexts |-> contexts, invoked |-> invoked,
             nested |-> Append(execution_contexts, context),
             tasks |-> Append(nestedTasks,
                          [pc |-> "created",
                           input |-> prepare_child_input(r.context.current_message,
                                                         context)]),
             trace |-> Append(nestedTrace,
                          [NoTrace EXCEPT !.parent_at_launch =
                               r.context.current_message])]
       ELSE [contexts |-> contexts, invoked |-> invoked, nested |-> execution_contexts,
             tasks |-> nestedTasks, trace |-> nestedTrace]

NoCancelCall == [execution_id |-> 0, returned |-> FALSE]

IdleResume == [pc |-> "idle", workflow_id |-> "P"]

IdleMain == [pc |-> "idle", result |-> NoMessage, step_failed |-> FALSE]

\* an engine with both workflows registered and no execution
IdleEngine ==
    /\ workflows = WorkflowIds
    /\ nested_steps = NestedStepIds
    /\ engine_contexts = [w \in WorkflowIds |-> NoContext]
    /\ execution_contexts = << >>
    /\ nestedTasks = << >>
    /\ mainTask = IdleMain
    /\ nestedTrace = << >>
    /\ engClock = 0
    /\ cancelCall = NoCancelCall
    /\ resumeTask = IdleResume
    /\ invocations = << >>

\* execute_workflow("P", message) is called: the execution context is created
\* at the start step and the driving loop entered
ExecuteWorkflow(message) ==
    /\ mainTask.pc = "idle"
    /\ get_workflow("P").found
    /\ engine_contexts' = [engine_contexts EXCEPT
                              !["P"] = NewContext(start_step(get_workflow("P")), message)]
    /\ mainTask' = [mainTask EXCEPT !.pc = "driving"]
    /\ UNCHANGED <<workflows, nested_steps, execution_contexts, nestedTasks, nestedTrace, engClock,
                   cancelCall, resumeTask, invocations, notEng>>

\* a pass of the driving loop in the caller's task; the call returns when the
\* loop returns
MainLoop(outcome) ==
    /\ mainTask.pc = "driving"
    /\ outcome \in StepOutcomes(UpcomingStep("P"))
    /\ LET r == continue_workflow_execution("P", engine_contexts["P"], outcome)
           s == AfterPass("P", r)
       IN /\ engine_contexts' = s.contexts
          /\ execution_contexts' = s.nested
          /\ nestedTasks' = s.tasks
          /\ nestedTrace' = s.trace
          /\ invocations' = s.invoked
          /\ mainTask' = IF r.returned
                         THEN [pc |-> "returned", result |-> r.value,
                               step_failed |-> r.raised]
                         ELSE mainTask
    /\ UNCHANGED <<workflows, nested_steps, engClock, cancelCall, resumeTask, notEng>>

\* the task of _execute_workflow(execution_id, input_message) starts: status
\* RUNNING, then execute_workflow(child_workflow_id, input_message); for a
\* workflow the engine does not know the call raises and the except branch
\* marks the context FAILED
ExecuteWorkflowTask(i) ==
    /\ i \in 1..Len(nestedTasks)
    /\ nestedTasks[i].pc = "created"
    /\ LET context == execution_contexts[i]
           child == get_workflow(context.child_workflow_id)
       IN IF child.found
          THEN /\ execution_contexts' =
                      [execution_contexts EXCEPT ![i].status = "running"]
               /\ engine_contexts' =
                      [engine_contexts EXCEPT
                          ![context.child_workflow_id] =
                              NewContext(start_step(child), nestedTasks[i].input)]
               /\ nestedTasks' = [nestedTasks EXCEPT ![i].pc = "child"]
               /\ UNCHANGED nestedTrace
          ELSE /\ execution_contexts' =
                      [execution_contexts EXCEPT ![i].status = "failed",
                                                 ![i].end_time = engClock]
               /\ nestedTasks' = [nestedTasks EXCEPT ![i].pc = "done"]
               /\ nestedTrace' = [nestedTrace EXCEPT ![i].child_failed = TRUE]
               /\ UNCHANGED engine_contexts
    /\ UNCHANGED <<workflows, nested_steps, mainTask, engClock, cancelCall, resumeTask,
                   invocations, notEng>>

\* the rest of _execute_workflow once the child's execute_workflow has
\* returned result (None included) in engine state s: the context is marked
\* COMPLETED and _process_nested_result maps the result into the parent's
\* current message and calls resume_workflow_from_step, which sets the
\* parent's current step and message and enters the driving loop
process_nested_result(s, i, result) ==
    LET context == s.nested[i]
        completed == [s.nested EXCEPT ![i].status = "completed",
                                      ![i].result_message = result,
                                      ![i].end_time = engClock]
        parent_context == s.contexts[context.parent_workflow_id]
        updated_message ==
            IF ~result.none
            THEN prepare_parent_result(parent_context.current_message, result, context)
            ELSE parent_context.current_message
        resumed_context ==
            [parent_context EXCEPT !.current_step_id = context.parent_step_id,
                                   !.current_message = updated_message]
    IN IF ~parent_context.exists \/ parent_context.current_message.none
       THEN [contexts |-> s.contexts, nested |-> completed,
             tasks |-> [s.tasks EXCEPT ![i].pc = "done"], trace |-> s.trace]
       ELSE [contexts |-> [s.contexts EXCEPT
                              ![context.parent_workflow_id] = resumed_context],
             nested |-> completed,
             tasks |-> [s.tasks EXCEPT ![i].pc = "resume"],
             trace |-> [s.trace EXCEPT
                           ![i].resumed = TRUE,
                           ![i].parent_held = parent_context.current_message,
                           ![i].resumed_with = updated_message]]

\* a pass of the child's driving loop in the task of a nested execution; when
\* the loop returns, the task goes on with the result
ChildLoop(i, outcome) ==
    /\ i \in 1..Len(nestedTasks)
    /\ nestedTasks[i].pc = "child"
    /\ outcome \in StepOutcomes(UpcomingStep(execution_contexts[i].child_workflow_id))
    /\ LET child == execution_contexts[i].child_workflow_id
           r == continue_workflow_execution(child, engine_contexts[child], outcome)
           s == AfterPass(child, r)
           failed == [s EXCEPT !.trace[i].child_failed = r.raised]
           t == IF r.returned THEN process_nested_result(failed, i, r.value) ELSE s
       IN /\ engine_contexts' = t.contexts
          /\ execution_contexts' = t.nested
          /\ nestedTasks' = t.tasks
          /\ nestedTrace' = t.trace
          /\ invocations' = s.invoked
    /\ UNCHANGED <<workflows, nested_steps, mainTask, engClock, cancelCall, resumeTask, notEng>>

\* a pass of the parent's driving loop entered by resume_workflow_from_step in
\* the task of a nested execution; the task ends when the loop returns
ResumeLoop(i, outcome) ==
    /\ i \in 1..Len(nestedTasks)
    /\ nestedTasks[i].pc = "resume"
    /\ outcome \in StepOutcomes(UpcomingStep(execution_contexts[i].parent_workflow_id))
    /\ LET parent == execution_contexts[i].parent_workflow_id
           r == continue_workflow_execution(parent, engine_contexts[parent], outcome)
           s == AfterPass(parent, r)
       IN /\ engine_contexts' = s.contexts
          /\ execution_contexts' = s.nested
          /\ nestedTrace' = s.trace
          /\ invocations' = s.invoked
          /\ nestedTasks' = IF r.returned THEN [s.tasks EXCEPT ![i].pc = "done"]
                            ELSE s.tasks
    /\ UNCHANGED <<workflows, nested_steps, mainTask, engClock, cancelCall, resumeTask, notEng>>

\* cancel_nested_workflow without the test of the status
cancel_nested_workflow_any_status(contexts, execution_id, time) ==
    IF execution_id \notin 1..Len(contexts)
    THEN [contexts |-> contexts, returned |-> FALSE]
    ELSE [contexts |-> [contexts EXCEPT ![execution_id].status = "cancelled",
                                        ![execution_id].end_time = time],
          returned |-> TRUE]

\* cancel_nested_workflow(execution_id): False for an unknown id and for an
\* execution that is not PENDING or RUNNING; else the context is marked
\* CANCELLED, the engine asked to cancel the child workflow, and True returned
cancel_nested_workflow(contexts, execution_id, time) ==
    IF execution_id \notin 1..Len(contexts)
    THEN [contexts |-> contexts, returned |-> FALSE]
    ELSE IF contexts[execution_id].status \notin {"pending", "running"}
    THEN [contexts |-> contexts, returned |-> FALSE]
    ELSE [contexts |-> [contexts EXCEPT ![execution_id].status = "cancelled",
                                        ![execution_id].end_time = time],
          returned |-> TRUE]

\* a cancel_nested_workflow(execution_id) call; an id past the last execution
\* is an id the engine does not know
CancelNestedWorkflow(i) ==
    /\ i \in 1..(Len(execution_contexts) + 1)
    /\ LET r == cancel_nested_workflow(execution_contexts, i, engClock)
       IN /\ execution_contexts' = r.contexts
          /\ nestedTrace' = IF r.returned
                            THEN [nestedTrace EXCEPT ![i].cancelled = TRUE]
                            ELSE nestedTrace
          /\ cancelCall' = [execution_id |-> i, returned |-> r.returned]
    /\ UNCHANGED <<workflows, nested_steps, engine_contexts, nestedTasks, mainTask, engClock,
                   resumeTask, invocations, notEng>>

\* the event loop's clock advances
EngineTick ==
    /\ engClock < MaxEngineTime
    /\ engClock' = engClock + 1
    /\ UNCHANGED <<workflows, nested_steps, engine_contexts, execution_contexts,
                   nestedTasks, mainTask,
                   nestedTrace, cancelCall, resumeTask, invocations, notEng>>

\* what cancel_workflow(child_workflow_id) can do to the child's
\* execute_workflow call the task is waiting in, besides letting it run to its
\* end (ChildLoop): the call returns None, or it raises
CancelledChildStops(i, raises) ==
    /\ i \in 1..Len(nestedTasks)
    /\ nestedTasks[i].pc = "child"
    /\ nestedTrace[i].cancelled
    /\ LET s == [contexts |-> engine_contexts, nested |-> execution_contexts,
                 tasks |-> nestedTasks, trace |-> nestedTrace]
           t == IF raises
                THEN [s EXCEPT !.nested[i].status = "failed",
                               !.nested[i].end_time = engClock, !.tasks[i].pc = "done",
                               !.trace[i].child_failed = TRUE]
                ELSE process_nested_result(s, i, NoMessage)
       IN /\ engine_contexts' = t.contexts
          /\ execution_contexts' = t.nested
          /\ nestedTasks' = t.tasks
          /\ nestedTrace' = t.trace
    /\ UNCHANGED <<workflows, nested_steps, mainTask, engClock, cancelCall, resumeTask,
                   invocations, notEng>>

\* the calls of resume_workflow_from_step(workflow_id, step_id, message) a
\* caller other than the nested engine makes: the step the nested engine
\* itself resumes P from, and the start step of C
ResumeTargets == {<<"P", "p2">>, <<"C", "c0">>}

\* resume_workflow_from_step(workflow_id, step_id, message): None without an
\* execution context of the workflow; else the context's current step and
\* message are set and the driving loop entered
ResumeWorkflowFromStep(workflow_id, step_id, message) ==
    /\ resumeTask.pc = "idle"
    /\ <<workflow_id, step_id>> \in ResumeTargets
    /\ IF get_execution_context(workflow_id).exists
       THEN /\ engine_contexts' =
                   [engine_contexts EXCEPT ![workflow_id].current_step_id = step_id,
                                           ![workflow_id].current_message = message]
            /\ resumeTask' = [pc |-> "driving", workflow_id |-> workflow_id]
       ELSE /\ resumeTask' = [pc |-> "returned", workflow_id |-> workflow_id]
            /\ UNCHANGED engine_contexts
    /\ UNCHANGED <<workflows, nested_steps, execution_contexts, nestedTasks, mainTask, nestedTrace,
                   engClock, cancelCall, invocations, notEng>>

\* a pass of the driving loop entered by that call; the call returns when the
\* loop returns
CallerResumeLoop(outcome) ==
    /\ resumeTask.pc = "driving"
    /\ outcome \in StepOutcomes(UpcomingStep(resumeTask.workflow_id))
    /\ LET w == resumeTask.workflow_id
           r == continue_workflow_execution(w, engine_contexts[w], outcome)
           s == AfterPass(w, r)
       IN /\ engine_contexts' = s.contexts
          /\ execution_contexts' = s.nested
          /\ nestedTasks' = s.tasks
          /\ nestedTrace' = s.trace
          /\ invocations' = s.invoked
          /\ resumeTask' = IF r.returned THEN [resumeTask EXCEPT !.pc = "returned"]
                           ELSE resumeTask
    /\ UNCHANGED <<workflows, nested_steps, mainTask, engClock, cancelCall, notEng>>

(***************************************************************************)
(* Nested workflow engine (workflow/nested_workflows.py): the registry of  *)
(* nested executions.  Two parent workflows A and B whose steps carry the  *)
(* same ids, and two child workflows.                                      *)
(***************************************************************************)
ParentIds == {"A", "B"}
ParentStepIds == {"s1", "s2"}
ChildIds == {"C1", "C2"}
NoParent == "none"

\* register_nested_workflow(parent_workflow_id, parent_step_id, child_workflow_id)
register_nested_workflow(p2c, c2p, parent_workflow_id, child_workflow_id) ==
    [parent_to_children |-> [p2c EXCEPT ![parent_workflow_id] = @ \cup {child_workflow_id}],
     child_to_parent |-> [c2p EXCEPT ![child_workflow_id] = parent_workflow_id]]

\* get_step_execution(parent_workflow_id, parent_step_id): the execution stored
\* for the step if it belongs to the parent workflow, else None (0)
get_step_execution(contexts, executions, parent_workflow_id, parent_step_id) ==
    LET context == contexts[parent_step_id]
    IN IF context # 0 /\ executions[context].parent_workflow_id = parent_workflow_id
       THEN context
       ELSE 0

NoStepCall == [parent_workflow_id |-> "A", parent_step_id |-> "s1", result |-> 0,
               made |-> FALSE]

\* a nested workflow engine after __init__
IdleSteps ==
    /\ parent_to_children = [p \in ParentIds |-> {}]
    /\ child_to_parent = [c \in ChildIds |-> NoParent]
    /\ nested_executions = << >>
    /\ step_contexts = [s \in ParentStepIds |-> 0]
    /\ stepCall = NoStepCall

\* execute_nested_workflow(parent_workflow_id, parent_step_id, child_workflow_id,
\* input_message): the relationship is registered if the child is not yet one
\* of the parent's, the context created under a new execution id and stored
\* in execution_contexts and step_contexts, and the child's task created
ExecuteNestedWorkflow(parent_workflow_id, parent_step_id, child_workflow_id) ==
    /\ Len(nested_executions) < MaxNestedExecutions
    /\ LET r == IF child_workflow_id \notin parent_to_children[parent_workflow_id]
                THEN register_nested_workflow(parent_to_children, child_to_parent,
                                              parent_workflow_id, child_workflow_id)
                ELSE [parent_to_children |-> parent_to_children,
                      child_to_parent |-> child_to_parent]
           execution_id == Len(nested_executions) + 1
       IN /\ parent_to_children' = r.parent_to_children
          /\ child_to_parent' = r.child_to_parent
          /\ nested_executions' =
                 Append(nested_executions,
                        [parent_workflow_id |-> parent_workflow_id,
                         parent_step_id |-> parent_step_id,
                         child_workflow_id |-> child_workflow_id,
                         status |-> "pending"])
          /\ step_contexts' = [step_contexts EXCEPT ![parent_step_id] = execution_id]
    /\ stepCall' = NoStepCall
    /\ UNCHANGED notSteps

\* a get_step_execution(parent_workflow_id, parent_step_id) call
GetStepExecution(parent_workflow_id, parent_step_id) ==
    /\ stepCall' = [parent_workflow_id |-> parent_workflow_id,
                    parent_step_id |-> parent_step_id,
                    result |-> get_step_execution(step_contexts, nested_executions,
                                                  parent_workflow_id, parent_step_id),
                    made |-> TRUE]
    /\ UNCHANGED <<parent_to_children, child_to_parent, nested_executions, step_contexts,
                   notSteps>>

(***************************************************************************)
(* message_batching.py: MessageThrottler, a token bucket.  Time is in      *)
(* ticks; the time window is TimeWindow ticks long.                        *)
(***************************************************************************)
TimeWindow == 2
DefaultBurstLimit == 2   \* burst_limit of a throttler built without one (200, scaled)
RateLimits == {1, 2, 3}
BurstLimits == {2, 4}

\* int(x) of a quotient a / b with b > 0: truncation towards zero
IntDiv(a, b) == IF a >= 0 THEN a \div b ELSE -((-a) \div b)

\* _refill_tokens at time current_time: the bucket and the refill time after it
refill_tokens(rate, burst, bucket, last, current_time) ==
    LET elapsed == current_time - last
        tokens_to_add == IntDiv(elapsed * rate, TimeWindow)
    IN IF tokens_to_add > 0
       THEN [tokens |-> Min(bucket + tokens_to_add, burst), last_refill_time |-> current_time]
       ELSE [tokens |-> bucket, last_refill_time |-> last]

NoAcquireCall == [count |-> 0, result |-> FALSE]

\* the throttler variables of MessageThrottler() with the scaled defaults
IdleThrottler ==
    /\ rate_limit = 1
    /\ burst_limit = DefaultBurstLimit
    /\ tokens = 1
    /\ last_refill_time = 0
    /\ throttlerClock = 0
    /\ acquireCall = NoAcquireCall

\* acquire(count), under the lock: refill, then take count tokens if the
\* bucket holds them
Acquire(count) ==
    /\ LET r == refill_tokens(rate_limit, burst_limit, tokens, last_refill_time,
                              throttlerClock)
       IN /\ last_refill_time' = r.last_refill_time
          /\ IF r.tokens >= count
             THEN /\ tokens' = r.tokens - count
                  /\ acquireCall' = [count |-> count, result |-> TRUE]
             ELSE /\ tokens' = r.tokens
                  /\ acquireCall' = [count |-> count, result |-> FALSE]
    /\ UNCHANGED <<rate_limit, burst_limit, throttlerClock, notThrottler>>

\* time passes
ThrottlerTick ==
    /\ throttlerClock < MaxThrottlerTime
    /\ throttlerClock' = throttlerClock + 1
    /\ UNCHANGED <<rate_limit, burst_limit, tokens, last_refill_time, acquireCall,
                   notThrottler>>

(***************************************************************************)
(* Meta-agent orchestrator (core/meta_agent/orchestrator.py):              *)
(* execute_workflow(workflow_id) loads the workflow, finds its start node  *)
(* and executes the nodes depth-first along the edges.  The applet         *)
(* executor, the output enforcer and the rule engine are external: a node  *)
(* either yields a valid output, yields an output that fails validation    *)
(* (replaced by the fallback message with metadata.error = True), or       *)
(* raises.                                                                 *)
(***************************************************************************)
Node(id, type, start_name) == [id |-> id, type |-> type, start_name |-> start_name]

\* the workflows in the database; W0 is not stored
StoredWorkflows ==
    [W1 |-> [nodes |-> <<Node("n1", "agent", TRUE), Node("n2", "agent", FALSE)>>,
             edges |-> << <<"n1", "n2">> >>],
     W2 |-> [nodes |-> <<Node("n1", "agent", FALSE), Node("n2", "agent", FALSE),
                         Node("n3", "agent", FALSE)>>,
             edges |-> << <<"n2", "n1">>, <<"n2", "n3">> >>],
     W3 |-> [nodes |-> <<Node("n1", "start", FALSE)>>,
             edges |-> << >>],
     W4 |-> [nodes |-> <<Node("n1", "agent", FALSE), Node("n2", "agent", FALSE)>>,
             edges |-> << >>]]
StoredIds == {"W1", "W2", "W3", "W4"}
OrchNodeIds == {"n1", "n2", "n3"}
NodeOutcomes == {"ok", "invalid", "raise"}

\* _find_node_by_id: the position of the node in workflow.nodes, 0 for None
find_node_by_id(workflow, node_id) ==
    IF \E i \in 1..Len(workflow.nodes) : workflow.nodes[i].id = node_id
    THEN CHOOSE i \in 1..Len(workflow.nodes) :
             /\ workflow.nodes[i].id = node_id
             /\ \A j \in 1..(i - 1) : workflow.nodes[j].id # node_id
    ELSE 0

\* _find_next_nodes: the targets of the node's edges, in edge order, that are
\* nodes of the workflow
find_next_nodes(workflow, node_id) ==
    LET out == SelectSeq(workflow.edges,
                   LAMBDA e : e[1] = node_id /\ find_node_by_id(workflow, e[2]) # 0)
    IN [i \in 1..Len(out) |-> out[i][2]]

\* _find_start_node: the first node of type start, else the first node named
\* start, else the only node without incoming edge, else None (NoStep)
find_start_node(workflow) ==
    LET n == Len(workflow.nodes)
        typed == {i \in 1..n : workflow.nodes[i].type = "start"}
        named == {i \in 1..n : workflow.nodes[i].start_name}
        start_candidates ==
            {i \in 1..n : \A k \in 1..Len(workflow.edges) :
                              workflow.edges[k][2] # workflow.nodes[i].id}
        first(S) == CHOOSE i \in S : \A j \in S : i <= j
    IN IF typed # {} THEN workflow.nodes[first(typed)].id
       ELSE IF named # {} THEN workflow.nodes[first(named)].id
       ELSE IF Cardinality(start_candidates) = 1
       THEN workflow.nodes[first(start_candidates)].id
       ELSE NoStep

\* _execute_node on the nodes still to execute, in the order of the recursion
\* (a node, then the subtrees of its next nodes in edge order): the outputs
\* appended to message_history, the node updates sent, and whether a node
\* raised, which ends the recursion
RECURSIVE execute_node(_, _, _, _, _)
execute_node(workflow, pending, outcomes, history, updates) ==
    IF pending = << >>
    THEN [raised |-> FALSE, history |-> history, updates |-> updates]
    ELSE IF outcomes[Head(pending)] = "raise"
    THEN [raised |-> TRUE, history |-> history, updates |-> updates]
    ELSE execute_node(workflow,
                      find_next_nodes(workflow, Head(pending)) \o Tail(pending),
                      outcomes,
                      Append(history, [node_id |-> Head(pending),
                                       error |-> outcomes[Head(pending)] = "invalid"]),
                      Append(updates, "node_completed"))

\* execute_workflow(workflow_id): how the call ends and the state it leaves
execute_workflow(workflow_id, outcomes) ==
    LET found == workflow_id \in StoredIds
        workflow == StoredWorkflows[workflow_id]
        start_node == find_start_node(workflow)
        run == execute_node(workflow, <<start_node>>, outcomes, << >>, << >>)
    IN IF ~found
       THEN [kind |-> "raised", error |-> "ValueError", stored |-> FALSE,
             history |-> << >>, updates |-> <<"error">>, step_failed |-> FALSE]
       ELSE IF start_node = NoStep
       THEN [kind |-> "raised", error |-> "ValueError", stored |-> TRUE,
             history |-> << >>, updates |-> <<"error">>, step_failed |-> FALSE]
       ELSE IF run.raised
       THEN [kind |-> "raised", error |-> "Exception", stored |-> TRUE,
             history |-> run.history, updates |-> Append(run.updates, "error"),
             step_failed |-> TRUE]
       ELSE [kind |-> "returned", error |-> "none", stored |-> TRUE,
             history |-> run.history, updates |-> Append(run.updates, "completed"),
             step_failed |-> FALSE]

NoOrchCall ==
    [op |-> "none", workflow_id |-> "", kind |-> "none", error |-> "none",
     updates |-> << >>, step_failed |-> FALSE]

\* an orchestrator that has executed nothing
IdleOrch ==
    /\ active_workflows = {}
    /\ node_history = [w \in StoredIds |-> << >>]
    /\ orchCall = NoOrchCall

\* a caller awaits execute_workflow(workflow_id)
OrchExecuteWorkflow(workflow_id, outcomes) ==
    /\ LET r == execute_workflow(workflow_id, outcomes)
       IN /\ active_workflows' = IF r.stored THEN active_workflows \cup {workflow_id}
                                 ELSE active_workflows
          /\ node_history' = IF r.stored
                             THEN [node_history EXCEPT ![workflow_id] = r.history]
                             ELSE node_history
          /\ orchCall' = [op |-> "execute_workflow", workflow_id |-> workflow_id,
                          kind |-> r.kind, error |-> r.error, updates |-> r.updates,
                          step_failed |-> r.step_failed]
    /\ UNCHANGED notOrch

(***************************************************************************)
(* Core workflow engine (workflow/workflow_engine.py).  execute_workflow   *)
(* looks the workflow up in the registry, takes the first node that no     *)
(* edge targets as the start and walks the first outgoing edge of each     *)
(* node.  A node executes nothing of its own: the walk only notifies the   *)
(* registered update callbacks.  A callback is an external coroutine that  *)
(* returns or raises.                                                      *)
(***************************************************************************)
WeEdge(source_id, target_id) == [source_id |-> source_id, target_id |-> target_id]

\* the workflows in the registry; E0 is not registered.  edge_ids tells whether
\* the edges carry the attributes source_id / target_id that the engine reads;
\* the edges of models/workflow.py (fields source, target) do not
RegisteredWorkflows ==
    [E1 |-> [nodes |-> <<"a", "b">>, edges |-> <<WeEdge("a", "b")>>, edge_ids |-> TRUE],
     E2 |-> [nodes |-> <<"a", "b">>, edges |-> << >>, edge_ids |-> TRUE],
     E3 |-> [nodes |-> <<"a", "b">>, edges |-> <<WeEdge("a", "b"), WeEdge("b", "a")>>,
             edge_ids |-> TRUE],
     E4 |-> [nodes |-> <<"a", "b">>, edges |-> <<WeEdge("a", "b")>>, edge_ids |-> FALSE],
     E5 |-> [nodes |-> <<"a">>, edges |-> <<WeEdge("a", "x")>>, edge_ids |-> TRUE],
     E6 |-> [nodes |-> <<"a", "b", "c">>, edges |-> <<WeEdge("a", "c"), WeEdge("b", "c")>>,
             edge_ids |-> TRUE],
     E7 |-> [nodes |-> <<"a", "b", "c">>,
             edges |-> <<WeEdge("a", "b"), WeEdge("b", "c"), WeEdge("c", "b")>>,
             edge_ids |-> TRUE]]
RegisteredIds == {"E1", "E2", "E3", "E4", "E5", "E6", "E7"}

\* the workflows whose walk can come back to a node it has left: an edge leads
\* from a node reached from the start node to a node already on the path
CyclicWalkIds == {"E7"}
CallbackKinds == {"ok", "raise"}

UpdateEvent(type, node_id, status) == [type |-> type, node_id |-> node_id, status |-> status]

\* notify_workflow_update without the try / except around each callback
notify_workflow_update_unguarded(callbacks, event) ==
    LET raising == {i \in 1..Len(callbacks) : callbacks[i] = "raise"}
        last == IF raising = {} THEN Len(callbacks)
                ELSE CHOOSE i \in raising : \A j \in raising : i <= j
    IN [event |-> event, invoked |-> [i \in 1..last |-> i],
        registered |-> Len(callbacks), raised |-> raising # {}]

\* notify_workflow_update: every callback is awaited in registration order; what a
\* callback raises is logged and dropped
notify_workflow_update(callbacks, event) ==
    [event |-> event, invoked |-> [i \in 1..Len(callbacks) |-> i],
     registered |-> Len(callbacks), raised |-> FALSE]

\* the start node of execute_workflow: the first node that no edge targets
we_start_node(workflow) ==
    LET free == {i \in 1..Len(workflow.nodes) :
                     \A k \in 1..Len(workflow.edges) :
                         workflow.edges[k].target_id # workflow.nodes[i]}
    IN IF free = {} THEN NoStep
       ELSE workflow.nodes[CHOOSE i \in free : \A j \in free : i <= j]

\* the next node of the walk: the target of the first edge leaving the node
we_next_node(workflow, node_id) ==
    LET out == {k \in 1..Len(workflow.edges) : workflow.edges[k].source_id = node_id}
    IN IF out = {} THEN NoStep
       ELSE workflow.edges[CHOOSE k \in out : \A j \in out : k <= j].target_id

NoWeCall ==
    [workflow_id |-> "", pc |-> "idle", context |-> FALSE, current_node_id |-> NoStep,
     visited_nodes |-> {}, ended |-> "", result |-> "pending"]

WeEnd(call, ended, result) ==
    [call EXCEPT !.pc = "done", !.ended = ended, !.result = result]

\* execute_workflow up to the call of _continue_workflow_execution
we_execute_workflow(workflow_id) ==
    LET call == [NoWeCall EXCEPT !.workflow_id = workflow_id]
        workflow == RegisteredWorkflows[workflow_id]
        start_node == we_start_node(workflow)
    IN IF workflow_id \notin RegisteredIds
       THEN WeEnd(call, "not_found", "None")
       ELSE IF ~workflow.edge_ids /\ workflow.nodes # << >> /\ workflow.edges # << >>
       THEN WeEnd([call EXCEPT !.context = TRUE], "AttributeError", "raised")
       ELSE IF start_node = NoStep
       THEN WeEnd([call EXCEPT !.context = TRUE], "no_start", "None")
       ELSE [call EXCEPT !.context = TRUE, !.pc = "loop", !.current_node_id = start_node]

\* one pass of the while loop of _continue_workflow_execution: the call after the
\* pass and the notifications made in it.  An exception inside the try block
\* (here only one that a notification lets through) is reported as a node error
\* and ends the call with None
we_continue_iteration(workflow, call, callbacks) ==
    LET node_id == call.current_node_id
        visited == [call EXCEPT !.visited_nodes = @ \cup {node_id}]
        next_node_id == we_next_node(workflow, node_id)
        moved == [visited EXCEPT !.current_node_id = next_node_id]
        executing == notify_workflow_update(callbacks,
                         UpdateEvent("node_execution", node_id, "executing"))
        completed == notify_workflow_update(callbacks,
                         UpdateEvent("node_execution", node_id, "completed"))
        finished == notify_workflow_update(callbacks,
                         UpdateEvent("workflow_execution", NoStep, "completed"))
        error == notify_workflow_update(callbacks,
                         UpdateEvent("node_execution", node_id, "error"))
        failed(c, log) ==
            [call |-> IF error.raised THEN WeEnd(c, "Exception", "raised")
                      ELSE WeEnd(c, "node_error", "None"),
             log |-> Append(log, error)]
    IN IF \A i \in 1..Len(workflow.nodes) : workflow.nodes[i] # node_id
       THEN [call |-> WeEnd(call, "node_not_found", "None"), log |-> << >>]
       ELSE IF executing.raised
       THEN failed(visited, <<executing>>)
       ELSE IF completed.raised
       THEN failed(moved, <<executing, completed>>)
       ELSE IF next_node_id # NoStep
       THEN [call |-> moved, log |-> <<executing, completed>>]
       ELSE IF finished.raised
       THEN failed(moved, <<executing, completed, finished>>)
       ELSE [call |-> WeEnd(moved, "completed", "current_message"),
             log |-> <<executing, completed, finished>>]

\* an engine without callbacks that has executed nothing
IdleWe ==
    /\ update_callbacks = << >>
    /\ weCall = NoWeCall
    /\ updateLog = << >>

\* register_workflow_update_callback(callback)
RegisterWorkflowUpdateCallback(kind) ==
    /\ Len(update_callbacks) < MaxCallbacks
    /\ update_callbacks' = Append(update_callbacks, kind)
    /\ UNCHANGED <<weCall, updateLog, notWe>>

\* a caller awaits execute_workflow(workflow_id); the call runs up to the first
\* notification of the walk
WeExecuteWorkflow(workflow_id) ==
    /\ weCall.pc # "loop"
    /\ weCall' = we_execute_workflow(workflow_id)
    /\ updateLog' = << >>
    /\ UNCHANGED <<update_callbacks, notWe>>

\* the walk handles its current node up to the notifications of the next one
WeContinueWorkflowExecution ==
    /\ weCall.pc = "loop"
    /\ LET r == we_continue_iteration(RegisteredWorkflows[weCall.workflow_id], weCall,
                                      update_callbacks)
       IN /\ weCall' = r.call
          /\ updateLog' = updateLog \o r.log
    /\ UNCHANGED <<update_callbacks, notWe>>

\* the same pass of the walk where the history of notifications is not kept
WeWalk ==
    /\ weCall.pc = "loop"
    /\ weCall' = we_continue_iteration(RegisteredWorkflows[weCall.workflow_id], weCall,
                                       update_callbacks).call
    /\ UNCHANGED <<update_callbacks, updateLog, notWe>>

(***************************************************************************)
(* get_message_history of the priority bus (priority_messaging.py).  The   *)
(* result is a list of messages, each named by its position in the topic's *)
(* history.                                                                *)
(***************************************************************************)
Limits == 0..3
MinPriorities == {0, 5, 9, 10}

\* seq[-limit:] of Python for limit >= 0: the last limit items, and the whole
\* list for limit = 0 (-0 is 0)
last_items(seq, limit) ==
    IF limit = 0 \/ limit >= Len(seq)
    THEN seq
    ELSE SubSeq(seq, Len(seq) - limit + 1, Len(seq))

\* list(reversed(seq))
reversed(seq) == [i \in 1..Len(seq) |-> seq[Len(seq) + 1 - i]]

\* the positions of the history that pass the filter, in order
RECURSIVE history_filtered(_, _, _)
history_filtered(history, n, min_priority) ==
    IF n = 0
    THEN << >>
    ELSE LET rest == history_filtered(history, n - 1, min_priority)
         IN IF min_priority > 0
            THEN IF ~history[n].isPriority \/ history[n].priority >= min_priority
                 THEN Append(rest, n)
                 ELSE rest
            ELSE Append(rest, n)

\* get_message_history(topic, limit, min_priority); a topic nothing was
\* published to has no history
get_message_history(history, limit, min_priority) ==
    IF history = << >>
    THEN << >>
    ELSE reversed(last_items(history_filtered(history, Len(history), min_priority), limit))

NoHistoryCall == [op |-> "none", limit |-> 0, min_priority |-> 0, result |-> << >>]

IdleHist == historyCall = NoHistoryCall

GetMessageHistory(limit, min_priority) ==
    /\ historyCall' = [op |-> "get_message_history", limit |-> limit,
                       min_priority |-> min_priority,
                       result |-> get_message_history(message_history, limit, min_priority)]
    /\ UNCHANGED notHist

(***************************************************************************)
(* Output validation (core/governance/resilience.py validate_output and    *)
(* core/governance/rule_engine.py).  A message is given by what the checks *)
(* of the default rules find in it; a registered check function by what it *)
(* does: "pass", "fail", "raise", or "none" for a rule without one.        *)
(***************************************************************************)
ValidationMessages == [unsafe : BOOLEAN, short : BOOLEAN, bad_json : BOOLEAN]

\* the check function of a rule on a message: (passed, message_text), or an
\* exception
check_function(check, message) ==
    CASE check = "content_safety" ->
            IF message.unsafe
            THEN [raised |-> FALSE, passed |-> FALSE, text |-> "unsafe keyword"]
            ELSE [raised |-> FALSE, passed |-> TRUE, text |-> "passed safety check"]
      [] check = "response_length" ->
            IF message.short
            THEN [raised |-> FALSE, passed |-> FALSE, text |-> "too short"]
            ELSE [raised |-> FALSE, passed |-> TRUE, text |-> "length acceptable"]
      [] check = "json_structure" ->
            IF message.bad_json
            THEN [raised |-> FALSE, passed |-> FALSE, text |-> "invalid JSON"]
            ELSE [raised |-> FALSE, passed |-> TRUE, text |-> "JSON valid"]
      [] check = "pass" -> [raised |-> FALSE, passed |-> TRUE, text |-> "ok"]
      [] check = "fail" -> [raised |-> FALSE, passed |-> FALSE, text |-> "failed"]
      [] OTHER -> [raised |-> TRUE, passed |-> FALSE, text |-> ""]

\* Rule.apply: a rule without check function passes; an exception of the check
\* function is a failed result
rule_apply(rule, message) ==
    IF rule.check = "none"
    THEN [rule_id |-> rule.id, passed |-> TRUE, message |-> "skipped"]
    ELSE LET r == check_function(rule.check, message)
         IN IF r.raised
            THEN [rule_id |-> rule.id, passed |-> FALSE, message |-> "error applying rule"]
            ELSE [rule_id |-> rule.id, passed |-> r.passed, message |-> r.text]

\* _register_default_rules
DefaultRules ==
    << [id |-> "content_safety", severity |-> "error", check |-> "content_safety"],
       [id |-> "response_length", severity |-> "warning", check |-> "response_length"],
       [id |-> "json_structure", severity |-> "error", check |-> "json_structure"] >>

\* the rules a caller registers
CustomRules ==
    [id : {"custom", "response_length"}, severity : {"info", "warning", "error"},
     check : {"none", "pass", "fail", "raise"}]

\* register_rule: self.rules[rule.id] = rule
register_rule(registered, rule) ==
    IF \E i \in 1..Len(registered) : registered[i].id = rule.id
    THEN [i \in 1..Len(registered) |->
             IF registered[i].id = rule.id THEN rule ELSE registered[i]]
    ELSE Append(registered, rule)

\* apply_rules with rule_ids = None: every registered rule, in order
apply_rules(registered, message) ==
    [i \in 1..Len(registered) |-> rule_apply(registered[i], message)]

\* the errors validate_output collects from the rule results
RECURSIVE validation_errors(_)
validation_errors(rule_results) ==
    IF rule_results = << >>
    THEN << >>
    ELSE LET rest == validation_errors(Tail(rule_results))
             r == Head(rule_results)
         IN IF ~r.passed
            THEN <<[rule_id |-> r.rule_id, message |-> r.message]>> \o rest
            ELSE rest

\* the empty error context {} of a valid output
EmptyContext == [error_type |-> "none", errors |-> << >>, retry_count |-> -1]

\* validate_output(workflow_id, node, message)
validate_output(registered, message) ==
    LET rule_results == apply_rules(registered, message)
        errors == validation_errors(rule_results)
    IN IF errors # << >>
       THEN [valid |-> FALSE, rule_results |-> rule_results,
             error_context |-> [error_type |-> "validation", errors |-> errors,
                                retry_count |-> 0]]
       ELSE [valid |-> TRUE, rule_results |-> rule_results, error_context |-> EmptyContext]

NoValidateCall == [op |-> "none", message |-> [unsafe |-> FALSE, short |-> FALSE,
                                               bad_json |-> FALSE],
                   result |-> [valid |-> TRUE, rule_results |-> << >>,
                               error_context |-> EmptyContext]]

\* a new rule engine
IdleVal ==
    /\ rules = DefaultRules
    /\ validateCall = NoValidateCall

RegisterRule(rule) ==
    /\ rules' = register_rule(rules, rule)
    /\ validateCall' = NoValidateCall
    /\ UNCHANGED notVal

ValidateOutput(message) ==
    /\ validateCall' = [op |-> "validate_output", message |-> message,
                        result |-> validate_output(rules, message)]
    /\ UNCHANGED <<rules, notVal>>

(***************************************************************************)
(* Message batcher (communication/message_batching.py).  Two topics; a     *)
(* batch handler is an external coroutine that may suspend, so a handler   *)
(* call starts in one step and returns (or raises) in a later one.  The    *)
(* semaphore of max_batches = 100 permits never blocks at these sizes.     *)
(***************************************************************************)
Topics == {"A", "B"}

\* last_batch_times.get(topic), None when the topic has no entry
last_time_of(times, topic) ==
    IF \E i \in 1..Len(times) : times[i].topic = topic
    THEN (CHOOSE i \in 1..Len(times) : times[i].topic = topic)
    ELSE 0

\* last_batch_times[topic] = time: a new key goes to the end of the dict
set_last_time(times, topic, time) ==
    IF last_time_of(times, topic) = 0
    THEN Append(times, [topic |-> topic, time |-> time])
    ELSE [times EXCEPT ![last_time_of(times, topic)].time = time]

\* _process_batch that hands the buffer to the handler without replacing it
process_batch_keeps_buffer(batches, topic) ==
    IF batches[topic] = << >>
    THEN [batches |-> batches, call |-> FALSE, batch |-> << >>]
    ELSE IF topic \notin batch_handlers
    THEN [batches |-> [batches EXCEPT ![topic] = << >>], call |-> FALSE, batch |-> << >>]
    ELSE [batches |-> batches, call |-> TRUE, batch |-> batches[topic]]

\* _process_batch(topic) up to the handler call: nothing for an empty buffer,
\* the buffer cleared when no handler is registered, else the buffer taken
\* as the batch and replaced by an empty list
process_batch(batches, topic) ==
    IF batches[topic] = << >>
    THEN [batches |-> batches, call |-> FALSE, batch |-> << >>]
    ELSE IF topic \notin batch_handlers
    THEN [batches |-> [batches EXCEPT ![topic] = << >>], call |-> FALSE, batch |-> << >>]
    ELSE [batches |-> [batches EXCEPT ![topic] = << >>], call |-> TRUE,
          batch |-> batches[topic]]

\* a handler call as the history records it: who made it, when, and the
\* topic's last_batch_times entry at that moment
HandlerCall(topic, batch, by, times) ==
    [topic |-> topic, batch |-> batch, by |-> by, at |-> batchClock,
     last_add |-> times[last_time_of(times, topic)].time, state |-> "running"]

\* the loop of _check_timeouts over the rest of its snapshot, up to the first
\* handler call (where it suspends) or the end of the snapshot
RECURSIVE check_timeouts(_, _, _)
check_timeouts(batches, snapshot, current_time) ==
    IF snapshot = << >>
    THEN [batches |-> batches, snapshot |-> << >>, call |-> FALSE,
          topic |-> "", batch |-> << >>]
    ELSE IF current_time - Head(snapshot).time >= timeout_seconds
            /\ batches[Head(snapshot).topic] # << >>
    THEN LET p == process_batch(batches, Head(snapshot).topic)
         IN IF p.call
            THEN [batches |-> p.batches, snapshot |-> Tail(snapshot), call |-> TRUE,
                  topic |-> Head(snapshot).topic, batch |-> p.batch]
            ELSE check_timeouts(p.batches, Tail(snapshot), current_time)
    ELSE check_timeouts(batches, Tail(snapshot), current_time)

NoChecker == [pc |-> "none", current_time |-> 0, snapshot |-> << >>, awaits |-> 0]
SleepingChecker == [NoChecker EXCEPT !.pc = "sleep"]

\* the final loop of stop() over the rest of its snapshot of the buffers' keys,
\* up to the first handler call (where it suspends) or the end of the snapshot
RECURSIVE flush_remaining(_, _)
flush_remaining(batches, snapshot) ==
    IF snapshot = << >>
    THEN [batches |-> batches, snapshot |-> << >>, call |-> FALSE,
          topic |-> "", batch |-> << >>]
    ELSE IF batches[Head(snapshot)] # << >>
    THEN LET p == process_batch(batches, Head(snapshot))
         IN IF p.call
            THEN [batches |-> p.batches, snapshot |-> Tail(snapshot), call |-> TRUE,
                  topic |-> Head(snapshot), batch |-> p.batch]
            ELSE flush_remaining(p.batches, Tail(snapshot))
    ELSE flush_remaining(batches, Tail(snapshot))

NoStopper == [pc |-> "none", snapshot |-> << >>, awaits |-> 0]
ReturnedStopper == [NoStopper EXCEPT !.pc = "returned"]

\* a new batcher
IdleBatch ==
    /\ message_batches = [t \in Topics |-> << >>]
    /\ last_batch_times = << >>
    /\ batch_handlers = Topics
    /\ batch_size = MaxBatchSize
    /\ running = FALSE
    /\ batchClock = 0
    /\ checker = NoChecker
    /\ handlerCalls = << >>
    /\ added = 0
    /\ stopper = NoStopper
    /\ addedAt = << >>

\* add_message(topic, message): starts the batcher when it is not running,
\* appends, stamps last_batch_times and flushes a full buffer; the caller then
\* waits for the handler
AddMessage(topic) ==
    /\ added < MaxAdded
    /\ added' = added + 1
    /\ running' = TRUE
    /\ checker' = IF running THEN checker ELSE SleepingChecker
    /\ LET appended == [message_batches EXCEPT ![topic] = Append(@, added + 1)]
           times == set_last_time(last_batch_times, topic, batchClock)
           p == process_batch(appended, topic)
       IN /\ last_batch_times' = times
          /\ IF Len(appended[topic]) >= batch_size
             THEN /\ message_batches' = p.batches
                  /\ handlerCalls' =
                         IF p.call
                         THEN Append(handlerCalls, HandlerCall(topic, p.batch, "add", times))
                         ELSE handlerCalls
             ELSE /\ message_batches' = appended
                  /\ UNCHANGED handlerCalls
    /\ addedAt' = Append(addedAt, [time |-> batchClock, topic |-> topic])
    /\ UNCHANGED <<batch_handlers, batch_size, batchClock, stopper, notBatch>>

\* register_batch_handler(topic, handler)
RegisterBatchHandler(topic) ==
    /\ batch_handlers' = batch_handlers \cup {topic}
    /\ UNCHANGED <<message_batches, last_batch_times, batch_size, running, batchClock,
                   checker, handlerCalls, added, stopper, addedAt, notBatch>>

\* the state of the checker and the batcher after its loop has run on from
\* the given snapshot
CheckerRuns(calls, snapshot, current_time) ==
    LET c == check_timeouts(message_batches, snapshot, current_time)
    IN /\ message_batches' = c.batches
       /\ handlerCalls' =
              IF c.call
              THEN Append(calls, HandlerCall(c.topic, c.batch, "timeout", last_batch_times))
              ELSE calls
       /\ checker' =
              IF c.call
              THEN [pc |-> "check", current_time |-> current_time,
                    snapshot |-> c.snapshot, awaits |-> Len(calls) + 1]
              ELSE SleepingChecker

\* the processing loop wakes up and calls _check_timeouts: the time is read
\* and last_batch_times copied once, then the topics are visited
CheckTimeouts ==
    /\ running
    /\ checker.pc = "sleep"
    /\ CheckerRuns(handlerCalls, last_batch_times, batchClock)
    /\ UNCHANGED <<last_batch_times, batch_handlers, batch_size, running, batchClock, added,
                   stopper, addedAt, notBatch>>

\* the state of the stop() call and the batcher after its final loop has run on
\* from the given snapshot
StopperRuns(calls, snapshot) ==
    LET c == flush_remaining(message_batches, snapshot)
    IN /\ message_batches' = c.batches
       /\ handlerCalls' =
              IF c.call
              THEN Append(calls, HandlerCall(c.topic, c.batch, "stop", last_batch_times))
              ELSE calls
       /\ stopper' =
              IF c.call
              THEN [pc |-> "flush", snapshot |-> c.snapshot, awaits |-> Len(calls) + 1]
              ELSE ReturnedStopper

\* stop(): returns at once when the batcher is not running; else clears running,
\* cancels the processing task, which takes a handler call that the task awaits
\* with it, and waits for the task to end (one stop() call per run)
Stop ==
    /\ stopper.pc = "none"
    /\ IF ~running
       THEN /\ stopper' = ReturnedStopper
            /\ UNCHANGED <<running, checker, handlerCalls>>
       ELSE /\ running' = FALSE
            /\ checker' = NoChecker
            /\ handlerCalls' =
                   IF checker.pc = "check"
                   THEN [handlerCalls EXCEPT ![checker.awaits].state = "cancelled"]
                   ELSE handlerCalls
            /\ stopper' = [NoStopper EXCEPT !.pc = "cancel"]
    /\ UNCHANGED <<message_batches, last_batch_times, batch_handlers, batch_size, batchClock,
                   added, addedAt, notBatch>>

\* the cancelled task has ended: stop() copies the keys of message_batches and
\* processes every buffer that is not empty
StopFlush ==
    /\ stopper.pc = "cancel"
    /\ StopperRuns(handlerCalls, [i \in 1..Len(last_batch_times) |-> last_batch_times[i].topic])
    /\ UNCHANGED <<last_batch_times, batch_handlers, batch_size, running, batchClock, checker,
                   added, addedAt, notBatch>>

\* a suspended handler call returns or raises (the exception is logged); when
\* it was made by _check_timeouts or by stop(), the loop over the snapshot goes on
HandlerReturns(k, ok) ==
    /\ k \in 1..Len(handlerCalls)
    /\ handlerCalls[k].state = "running"
    /\ LET calls == [handlerCalls EXCEPT ![k].state = IF ok THEN "done" ELSE "raised"]
       IN IF checker.pc = "check" /\ checker.awaits = k
          THEN /\ CheckerRuns(calls, checker.snapshot, checker.current_time)
               /\ UNCHANGED stopper
          ELSE IF stopper.pc = "flush" /\ stopper.awaits = k
          THEN /\ StopperRuns(calls, stopper.snapshot)
               /\ UNCHANGED checker
          ELSE /\ handlerCalls' = calls
               /\ UNCHANGED <<message_batches, checker, stopper>>
    /\ UNCHANGED <<last_batch_times, batch_handlers, batch_size, running, batchClock, added,
                   addedAt, notBatch>>

\* time passes
BatchTick ==
    /\ batchClock < MaxBatchTime
    /\ batchClock' = batchClock + 1
    /\ UNCHANGED <<message_batches, last_batch_times, batch_handlers, batch_size, running,
                   checker, handlerCalls, added, stopper, addedAt, notBatch>>

(***************************************************************************)
(* Message replay manager (communication/message_replay.py).  The          *)
(* persisted messages are MaxReplayMessages rows; the processor is an      *)
(* external coroutine that may suspend, so a session's task rests inside   *)
(* the processor call between two of its steps.                            *)
(***************************************************************************)
ReplayMsgIds == 1..MaxReplayMessages
MessageStatus == {"queued", "failed", "processed"}
ProcessorOutcomes == {"true", "false", "raise"}

\* the topic a stored message was published on
topic_of(id) == IF id < MaxReplayMessages THEN "A" ELSE "B"

\* message_bus.get_failed_messages(topic, time_window, max_messages): the
\* stored messages of the topic that are failed or were never processed, in
\* stored order, at most max_messages of them
get_failed_messages(status, topic, max_messages) ==
    LET stored == [id \in ReplayMsgIds |-> id]
        Failed(id) == topic_of(id) = topic /\ status[id] \in {"failed", "queued"}
        found == SelectSeq(stored, Failed)
    IN SubSeq(found, 1, Min(max_messages, Len(found)))

\* message_bus.update_message_status(message.id, status)
update_message_status(status, id, new_status) == [status EXCEPT ![id] = new_status]

\* a session as replay_failed_messages creates it
NewReplay(topic, total) ==
    [topic |-> topic, total_messages |-> total, processed_messages |-> 0,
     successful_messages |-> 0, failed_messages |-> 0, status |-> "running"]

\* the loop body with an exception of the processor left uncounted
replay_outcome_raise_uncounted(replay, outcome) ==
    IF outcome = "true"
    THEN [status |-> "processed",
          replay |-> [replay EXCEPT !.successful_messages = @ + 1,
                                    !.processed_messages = @ + 1]]
    ELSE IF outcome = "false"
    THEN [status |-> "failed",
          replay |-> [replay EXCEPT !.failed_messages = @ + 1,
                                    !.processed_messages = @ + 1]]
    ELSE [status |-> "failed", replay |-> replay]

\* the body of the for loop of _replay_messages after the processor call:
\* the status written and the session's counters
replay_outcome(replay, outcome) ==
    IF outcome = "true"
    THEN [status |-> "processed",
          replay |-> [replay EXCEPT !.successful_messages = @ + 1,
                                    !.processed_messages = @ + 1]]
    ELSE [status |-> "failed",
          replay |-> [replay EXCEPT !.failed_messages = @ + 1,
                                    !.processed_messages = @ + 1]]

ProcessorCall(replay_id, message) ==
    [replay_id |-> replay_id, message |-> message, status |-> msgStatus[message]]

NoReplayReturn == [replay_id |-> None, count |-> None]

\* a new manager over a store with no failed message
IdleReplay ==
    /\ msgStatus = [id \in ReplayMsgIds |-> "processed"]
    /\ processors = {}
    /\ filters = [t \in Topics |-> ReplayMsgIds]
    /\ active_replays = << >>
    /\ replayTasks = << >>
    /\ replayReturn = NoReplayReturn
    /\ processorCalls = << >>

\* replay_failed_messages(topic, time_window, max_messages): ("", 0), here
\* replay_id 0, without a processor or without a message to replay; else a
\* new session and its task, which runs later
ReplayFailedMessages(topic, max_messages) ==
    /\ Len(active_replays) < MaxReplays
    /\ LET failed_messages == get_failed_messages(msgStatus, topic, max_messages)
           Passes(id) == id \in filters[topic]
           filtered_messages == SelectSeq(failed_messages, Passes)
       IN IF topic \notin processors \/ filtered_messages = << >>
          THEN /\ replayReturn' = [replay_id |-> 0, count |-> 0]
               /\ UNCHANGED <<active_replays, replayTasks>>
          ELSE /\ active_replays' =
                      Append(active_replays, NewReplay(topic, Len(filtered_messages)))
               /\ replayTasks' = Append(replayTasks,
                      [pc |-> "created", messages |-> filtered_messages, pos |-> 1,
                       outcomes |-> << >>])
               /\ replayReturn' = [replay_id |-> Len(active_replays) + 1,
                                   count |-> Len(filtered_messages)]
    /\ UNCHANGED <<msgStatus, processors, filters, processorCalls, notReplay>>

\* the task of session i starts: the processor is called on the first message
StartReplayMessages(i) ==
    /\ i \in 1..Len(replayTasks)
    /\ replayTasks[i].pc = "created"
    /\ replayTasks' = [replayTasks EXCEPT ![i].pc = "processor"]
    /\ processorCalls' = Append(processorCalls, ProcessorCall(i, replayTasks[i].messages[1]))
    /\ UNCHANGED <<msgStatus, processors, filters, active_replays, replayReturn, notReplay>>

\* the processor returns True or False or raises: the message's status is
\* written, the counters move, and the loop goes on to the next message or
\* marks the session completed
ProcessorReturns(i, outcome) ==
    /\ i \in 1..Len(replayTasks)
    /\ replayTasks[i].pc = "processor"
    /\ LET task == replayTasks[i]
           o == replay_outcome(active_replays[i], outcome)
           written == update_message_status(msgStatus, task.messages[task.pos], o.status)
       IN /\ msgStatus' = written
          /\ IF task.pos < Len(task.messages)
             THEN /\ replayTasks' = [replayTasks EXCEPT ![i].pos = @ + 1,
                                                         ![i].outcomes = Append(@, outcome)]
                  /\ active_replays' = [active_replays EXCEPT ![i] = o.replay]
                  /\ processorCalls' = Append(processorCalls,
                         [replay_id |-> i, message |-> task.messages[task.pos + 1],
                          status |-> written[task.messages[task.pos + 1]]])
             ELSE /\ replayTasks' = [replayTasks EXCEPT ![i].pc = "done",
                                                         ![i].outcomes = Append(@, outcome)]
                  /\ active_replays' =
                         [active_replays EXCEPT ![i] = [o.replay EXCEPT !.status = "completed"]]
                  /\ UNCHANGED processorCalls
    /\ UNCHANGED <<processors, filters, replayReturn, notReplay>>

(***************************************************************************)
(* ResilienceManager.handle_error (core/governance/resilience.py): one     *)
(* node, one error, and a caller that passes the same message and the same *)
(* error_context dict to successive calls.                                 *)
(***************************************************************************)
FallbackStrategies ==
    {"default_response", "alternate_node", "error_node", "skip_node", "abort_workflow"}

\* a message: its content and what handle_error put in its metadata
HeMessage(content, metadata, detail) ==
    [content |-> content, metadata |-> metadata, detail |-> detail]
OriginalMessage == HeMessage("original", "none", None)
NoneMessage == HeMessage("None", "none", None)

\* what a registered custom handler can do: return (False, None), return
\* (True, new_message), or raise
HandlerOutcomes == {"unhandled", "handled", "raise"}

\* the fallback of handle_error once the retries are exhausted: the tuple
\* (handled, new_message, next_node_id), message being the caller's object
\* after the call; skip-node taken as abort
apply_fallback_skip_aborts(config, message, retry_count) ==
    LET unhandled == [handled |-> FALSE, new_message |-> NoneMessage,
                      next_node_id |-> "None", message |-> message]
    IN CASE config.fallback_strategy = "default_response" ->
                IF config.default_response # "None"
                THEN [handled |-> TRUE,
                      new_message |-> HeMessage(config.default_response, "fallback",
                                                retry_count),
                      next_node_id |-> "None", message |-> message]
                ELSE unhandled
         [] config.fallback_strategy = "alternate_node" ->
                IF config.fallback_node_id # "None"
                THEN [handled |-> TRUE, new_message |-> message,
                      next_node_id |-> config.fallback_node_id, message |-> message]
                ELSE unhandled
         [] config.fallback_strategy = "error_node" ->
                IF config.fallback_node_id # "None"
                THEN LET annotated == [message EXCEPT !.metadata = "error",
                                                      !.detail = retry_count]
                     IN [handled |-> TRUE, new_message |-> annotated,
                         next_node_id |-> config.fallback_node_id,
                         message |-> annotated]
                ELSE unhandled
         [] OTHER -> unhandled

\* the fallback of handle_error once the retries are exhausted: the tuple
\* (handled, new_message, next_node_id), message being the caller's object
\* after the call
apply_fallback(config, message, retry_count) ==
    LET unhandled == [handled |-> FALSE, new_message |-> NoneMessage,
                      next_node_id |-> "None", message |-> message]
    IN CASE config.fallback_strategy = "default_response" ->
                IF config.default_response # "None"
                THEN [handled |-> TRUE,
                      new_message |-> HeMessage(config.default_response, "fallback",
                                                retry_count),
                      next_node_id |-> "None", message |-> message]
                ELSE unhandled
         [] config.fallback_strategy = "alternate_node" ->
                IF config.fallback_node_id # "None"
                THEN [handled |-> TRUE, new_message |-> message,
                      next_node_id |-> config.fallback_node_id, message |-> message]
                ELSE unhandled
         [] config.fallback_strategy = "error_node" ->
                IF config.fallback_node_id # "None"
                THEN LET annotated == [message EXCEPT !.metadata = "error",
                                                      !.detail = retry_count]
                     IN [handled |-> TRUE, new_message |-> annotated,
                         next_node_id |-> config.fallback_node_id,
                         message |-> annotated]
                ELSE unhandled
         [] config.fallback_strategy = "skip_node" ->
                [handled |-> TRUE, new_message |-> message, next_node_id |-> "None",
                 message |-> message]
         [] OTHER -> unhandled

\* should handle_error retry: retry_count < config.max_retries, here with <=
should_retry_once_more(retry_count, config) == retry_count <= config.max_retries

\* should handle_error retry: retry_count < config.max_retries
should_retry(retry_count, config) == retry_count < config.max_retries

\* handle_error after the breaker has recorded the failure: the custom
\* handler, then the retry while retries are left (delay being what
\* calculate_retry_delay_ms returned or that it raised), then the fallback
handle_error(config, handler, message, context, delay) ==
    LET retry_count == IF context = None THEN 0 ELSE context
    IN IF handler = "handled"
       THEN [kind |-> "custom", handled |-> TRUE,
             new_message |-> HeMessage("custom", "none", None),
             next_node_id |-> "None", message |-> message, context |-> context,
             delay |-> 0]
       ELSE IF should_retry(retry_count, config)
       THEN IF delay.kind = "raise"
            THEN [kind |-> "raised", handled |-> FALSE, new_message |-> NoneMessage,
                  next_node_id |-> "None", message |-> message, context |-> context,
                  delay |-> 0]
            ELSE [kind |-> "retry", handled |-> TRUE, new_message |-> message,
                  next_node_id |-> "None", message |-> message,
                  context |-> retry_count + 1, delay |-> delay.delay]
       ELSE LET f == apply_fallback(config, message, context)
            IN [kind |-> "fallback", handled |-> f.handled,
                new_message |-> f.new_message, next_node_id |-> f.next_node_id,
                message |-> f.message, context |-> context, delay |-> 0]

\* the error-handling variables when no error is being handled
IdleHe ==
    /\ heConfig = [DefaultConfig EXCEPT !.retry_strategy = "immediate"]
    /\ error_handlers = FALSE
    /\ heBreaker = NoBreaker
    /\ error_context = None
    /\ heMessage = OriginalMessage
    /\ heCalls = << >>

\* one handle_error(workflow_id, node, message, error_type, error_context) call
HandleError(handler, delay) ==
    /\ Len(heCalls) < MaxHandleErrors
    /\ handler \in (IF error_handlers THEN HandlerOutcomes ELSE {"none"})
    /\ delay \in calculate_retry_delay_ms(
                     IF error_context = None THEN 0 ELSE error_context, heConfig)
    /\ LET r == handle_error(heConfig, handler, heMessage, error_context, delay)
       IN /\ heBreaker' = IF heBreaker.exists THEN record_failure(heBreaker, 0)
                          ELSE heBreaker
          /\ error_context' = r.context
          /\ heMessage' = r.message
          /\ heCalls' = Append(heCalls, [kind |-> r.kind, handled |-> r.handled,
                                         new_message |-> r.new_message,
                                         next_node_id |-> r.next_node_id,
                                         passed |-> heMessage, delay |-> r.delay])
    /\ UNCHANGED <<heConfig, error_handlers, notHe>>

(***************************************************************************)
(* Specifications                                                          *)
(***************************************************************************)
\* a manager with no configured node
InitBreaker ==
    /\ IdleThrottler
    /\ IdleSteps
    /\ IdleVal
    /\ IdleHist
    /\ IdleWe
    /\ IdlePb
    /\ IdleHe
    /\ IdleReplay
    /\ IdleBatch
    /\ IdleOrch
    /\ IdleEngine
    /\ IdleCb
    /\ IdleRd
    /\ IdleBus
    /\ IdleBranch

NextBreaker ==
    \/ \E n \in Nodes : ConfigureNodeResilience(n)
    \/ \E n \in Nodes : RecordSuccess(n)
    \/ \E n \in Nodes : RecordFailure(n)
    \/ \E n \in Nodes : ShouldAllowExecution(n)
    \/ \E n \in Nodes : ResetBreaker(n)
    \/ Tick

SpecBreaker == InitBreaker /\ [][NextBreaker]_vars

\* one ResilienceConfig out of RetryConfigs
InitRetry ==
    /\ IdleThrottler
    /\ IdleSteps
    /\ IdleVal
    /\ IdleHist
    /\ IdleWe
    /\ IdlePb
    /\ IdleHe
    /\ IdleReplay
    /\ IdleBatch
    /\ IdleOrch
    /\ IdleEngine
    /\ rdConfig \in RetryConfigs
    /\ rdCount = 0
    /\ rdResult = NoResult
    /\ IdleCb
    /\ IdleBus
    /\ IdleBranch

NextRetry == CalculateRetryDelay

SpecRetry == InitRetry /\ [][NextRetry]_vars

\* a bus with its subscribers registered, before the first publish
InitBus ==
    /\ IdleThrottler
    /\ IdleSteps
    /\ IdleVal
    /\ IdleHist
    /\ IdleWe
    /\ IdlePb
    /\ IdleHe
    /\ IdleReplay
    /\ IdleBatch
    /\ IdleOrch
    /\ IdleEngine
    /\ priority_queues = << >>
    /\ is_processing = FALSE
    /\ message_history = << >>
    /\ subscribers \in {<< >>, <<"s1">>, <<"s1", "s2">>}
    /\ busClock = 0
    /\ ready = << >>
    /\ tasks = [d \in 1..MaxMessages |-> NoTask]
    /\ delivered = << >>
    /\ publishRaised = {}
    /\ IdleCb
    /\ IdleRd
    /\ IdleBranch

NextBus ==
    \/ \E message \in MessageKinds, dt \in {0, 1} : Publish(message, dt)
    \/ ProcessQueueStart
    \/ ProcessQueueWake
    \/ \E ok \in BOOLEAN : Callback(ok)
    \/ GatherDone

SpecBus == InitBus /\ [][NextBus]_vars

\* one turn of the event loop: it runs the handle at the head of its ready queue
EventLoopStep ==
    \/ ProcessQueueStart
    \/ ProcessQueueWake
    \/ \E ok \in BOOLEAN : Callback(ok)
    \/ GatherDone

\* the bus on an event loop that keeps running: a ready handle is run in the
\* end; nothing obliges anybody to publish again.  The publishes are made at
\* distinct readings of the clock, so no heap comparison reaches the messages.
NextBusLive ==
    \/ \E message \in MessageKinds :
           Len(message_history) < MaxLiveMessages /\ Publish(message, 1)
    \/ EventLoopStep

SpecBusLive == InitBus /\ [][NextBusLive]_vars /\ WF_vars(EventLoopStep)

\* a priority bus without subscribers, whose history is queried
InitHistory ==
    /\ IdleThrottler
    /\ IdleSteps
    /\ IdleVal
    /\ IdleWe
    /\ IdlePb
    /\ IdleHe
    /\ IdleReplay
    /\ IdleBatch
    /\ IdleOrch
    /\ IdleEngine
    /\ IdleBranch
    /\ IdleCb
    /\ IdleRd
    /\ IdleHist
    /\ priority_queues = << >>
    /\ is_processing = FALSE
    /\ message_history = << >>
    /\ subscribers = << >>
    /\ busClock = 0
    /\ ready = << >>
    /\ tasks = [d \in 1..MaxMessages |-> NoTask]
    /\ delivered = << >>
    /\ publishRaised = {}

NextHistory ==
    \/ \E message \in MessageKinds, dt \in {0, 1} : Publish(message, dt)
    \/ ProcessQueueStart
    \/ \E limit \in Limits, min_priority \in MinPriorities :
           GetMessageHistory(limit, min_priority)

SpecHistory == InitHistory /\ [][NextHistory]_vars

\* a rule engine with its default rules
InitValidate ==
    /\ IdleThrottler
    /\ IdleSteps
    /\ IdleWe
    /\ IdlePb
    /\ IdleHe
    /\ IdleReplay
    /\ IdleBatch
    /\ IdleOrch
    /\ IdleEngine
    /\ IdleBranch
    /\ IdleCb
    /\ IdleRd
    /\ IdleHist
    /\ IdleBus
    /\ rules = DefaultRules
    /\ validateCall = NoValidateCall

NextValidate ==
    \/ \E rule \in CustomRules : RegisterRule(rule)
    \/ \E message \in ValidationMessages : ValidateOutput(message)

SpecValidate == InitValidate /\ [][NextValidate]_vars

\* an engine with no branch registered
InitBranch ==
    /\ IdleThrottler
    /\ IdleSteps
    /\ IdleVal
    /\ IdleHist
    /\ IdleWe
    /\ IdlePb
    /\ IdleHe
    /\ IdleReplay
    /\ IdleBatch
    /\ IdleOrch
    /\ IdleEngine
    /\ IdleBranch
    /\ IdleCb
    /\ IdleRd
    /\ IdleBus

NextBranch ==
    \/ \E branch \in Branches : RegisterBranch(branch)
    \/ \E i \in 1..MaxBranches, message \in BranchMessages : EvaluateBranch(i, message)
    \/ \E step \in {"s1", "s2"}, message \in BranchMessages : GetNextStep(step, message)

SpecBranch == InitBranch /\ [][NextBranch]_vars

\* the same engine with calls of evaluate_condition and of the enhanced
\* engine's _get_next_step
NextBranchCalls ==
    \/ \E branch \in Branches : RegisterBranch(branch)
    \/ \E i \in 1..MaxBranches, j \in 1..MaxConditions, message \in BranchMessages :
           EvaluateCondition(i, j, message)
    \/ \E step \in {"s1", "s2"}, message \in BranchMessages :
           EngineGetNextStep(step, message)

SpecBranchCalls == InitBranch /\ [][NextBranchCalls]_vars

\* ---- the enhanced engine: one execution of the parent workflow
EngineMessages ==
    {Message([k \in CtxKeys |-> IF k = "z" THEN z ELSE IF k = "x" THEN x ELSE Absent]) :
        x \in {Absent} \cup Values, z \in Values}
AllOutcomes ==
    UNION {StepOutcomes(s) : s \in {"p1", "p2", "p3", "c1", "g1", NoStep}}
InitEngine ==
    /\ IdleThrottler
    /\ IdleSteps
    /\ IdleVal
    /\ IdleHist
    /\ IdleWe
    /\ IdlePb
    /\ IdleHe
    /\ IdleReplay
    /\ IdleBatch
    /\ IdleOrch
    /\ IdleCb
    /\ IdleRd
    /\ IdleBus
    /\ IdleBranch
    /\ workflows \in {{"P", "C"}, {"P"}}
    /\ nested_steps = NestedStepIds
    /\ engine_contexts = [w \in WorkflowIds |-> NoContext]
    /\ execution_contexts = << >>
    /\ nestedTasks = << >>
    /\ mainTask = IdleMain
    /\ nestedTrace = << >>
    /\ engClock = 0
    /\ cancelCall = NoCancelCall
    /\ resumeTask = IdleResume
    /\ invocations = << >>

NextEngine ==
    \/ \E message \in EngineMessages : ExecuteWorkflow(message)
    \/ \E outcome \in AllOutcomes : MainLoop(outcome)
    \/ \E i \in 1..Len(nestedTasks) : ExecuteWorkflowTask(i)
    \/ \E i \in 1..Len(nestedTasks), outcome \in AllOutcomes : ChildLoop(i, outcome)
    \/ \E i \in 1..Len(nestedTasks), outcome \in AllOutcomes : ResumeLoop(i, outcome)
    \/ \E i \in 1..(Len(nestedTasks) + 1) : CancelNestedWorkflow(i)
    \/ EngineTick
    \/ \E i \in 1..Len(nestedTasks), raises \in BOOLEAN : CancelledChildStops(i, raises)
SpecEngine == InitEngine /\ [][NextEngine]_vars

\* ---- the engine with three levels: step c1 of C is a nested step that runs G
InitEngineDeep ==
    /\ IdleThrottler
    /\ IdleSteps
    /\ IdleVal
    /\ IdleHist
    /\ IdleWe
    /\ IdlePb
    /\ IdleHe
    /\ IdleReplay
    /\ IdleBatch
    /\ IdleOrch
    /\ IdleCb
    /\ IdleRd
    /\ IdleBus
    /\ IdleBranch
    /\ workflows \in {{"P", "C", "G"}, {"P", "C"}}
    /\ nested_steps = {"p2", "c1"}
    /\ engine_contexts = [w \in WorkflowIds |-> NoContext]
    /\ execution_contexts = << >>
    /\ nestedTasks = << >>
    /\ mainTask = IdleMain
    /\ nestedTrace = << >>
    /\ engClock = 0
    /\ cancelCall = NoCancelCall
    /\ resumeTask = IdleResume
    /\ invocations = << >>
SpecEngineDeep == InitEngineDeep /\ [][NextEngine]_vars

\* ---- the same engine with a caller of resume_workflow_from_step
ResumeMessages == {Message([k \in CtxKeys |-> IF k = "z" THEN "v3" ELSE Absent])}
NextEngineCalls ==
    \/ NextEngine
    \/ \E target \in ResumeTargets, message \in ResumeMessages :
           ResumeWorkflowFromStep(target[1], target[2], message)
    \/ \E outcome \in AllOutcomes : CallerResumeLoop(outcome)
SpecEngineCalls == InitEngine /\ [][NextEngineCalls]_vars

\* ---- the registry of nested executions
InitSteps ==
    /\ IdleThrottler
    /\ IdleVal
    /\ IdleHist
    /\ IdleWe
    /\ IdlePb
    /\ IdleHe
    /\ IdleReplay
    /\ IdleBatch
    /\ IdleOrch
    /\ IdleEngine
    /\ IdleCb
    /\ IdleRd
    /\ IdleBus
    /\ IdleBranch
    /\ IdleSteps

NextSteps ==
    \/ \E p \in ParentIds, s \in ParentStepIds, c \in ChildIds :
           ExecuteNestedWorkflow(p, s, c)
    \/ \E p \in ParentIds, s \in ParentStepIds : GetStepExecution(p, s)
SpecSteps == InitSteps /\ [][NextSteps]_vars

\* ---- the throttler: MessageThrottler(rate_limit, window, burst_limit), or the
\* one BatchingMessageBus builds from a rate limit alone
InitThrottler ==
    /\ IdleSteps
    /\ IdleVal
    /\ IdleHist
    /\ IdleWe
    /\ IdlePb
    /\ IdleHe
    /\ IdleReplay
    /\ IdleBatch
    /\ IdleOrch
    /\ IdleEngine
    /\ IdleCb
    /\ IdleRd
    /\ IdleBus
    /\ IdleBranch
    /\ rate_limit \in RateLimits
    /\ burst_limit \in BurstLimits \cup {DefaultBurstLimit}
    /\ tokens = rate_limit
    /\ last_refill_time = 0
    /\ throttlerClock = 0
    /\ acquireCall = NoAcquireCall

NextThrottler ==
    \/ \E count \in 1..MaxAcquire : Acquire(count)
    \/ ThrottlerTick
SpecThrottler == InitThrottler /\ [][NextThrottler]_vars

\* ---- the orchestrator: execute_workflow calls, one after another
InitOrch ==
    /\ IdleThrottler
    /\ IdleSteps
    /\ IdleVal
    /\ IdleHist
    /\ IdleWe
    /\ IdlePb
    /\ IdleHe
    /\ IdleReplay
    /\ IdleBatch
    /\ IdleCb
    /\ IdleRd
    /\ IdleBus
    /\ IdleBranch
    /\ IdleEngine
    /\ IdleOrch
NextOrch ==
    \E workflow_id \in StoredIds \cup {"W0"}, outcomes \in [OrchNodeIds -> NodeOutcomes] :
        OrchExecuteWorkflow(workflow_id, outcomes)
SpecOrch == InitOrch /\ [][NextOrch]_vars

\* ---- the message batcher
InitBatch ==
    /\ IdleThrottler
    /\ IdleSteps
    /\ IdleVal
    /\ IdleHist
    /\ IdleWe
    /\ IdlePb
    /\ IdleHe
    /\ IdleReplay
    /\ IdleCb
    /\ IdleRd
    /\ IdleBus
    /\ IdleBranch
    /\ IdleEngine
    /\ IdleOrch
    /\ message_batches = [t \in Topics |-> << >>]
    /\ last_batch_times = << >>
    /\ batch_handlers \in {Topics, {"A"}}
    /\ batch_size \in 2..MaxBatchSize
    /\ running = FALSE
    /\ batchClock = 0
    /\ checker = NoChecker
    /\ handlerCalls = << >>
    /\ added = 0
    /\ stopper = NoStopper
    /\ addedAt = << >>
NextBatch ==
    \/ \E topic \in Topics : AddMessage(topic)
    \/ \E topic \in Topics : RegisterBatchHandler(topic)
    \/ CheckTimeouts
    \/ \E k \in 1..MaxAdded, ok \in BOOLEAN : HandlerReturns(k, ok)
    \/ BatchTick
    \/ Stop
    \/ StopFlush
SpecBatch == InitBatch /\ [][NextBatch]_vars

\* ---- the replay manager: a store of failed, unprocessed and processed
\* messages, a processor on topic A and possibly on B, and possibly a filter
\* on topic A that drops message 1
InitReplay ==
    /\ IdleThrottler
    /\ IdleSteps
    /\ IdleVal
    /\ IdleHist
    /\ IdleWe
    /\ IdlePb
    /\ IdleHe
    /\ IdleCb
    /\ IdleRd
    /\ IdleBus
    /\ IdleBranch
    /\ IdleEngine
    /\ IdleOrch
    /\ IdleBatch
    /\ msgStatus \in [ReplayMsgIds -> MessageStatus]
    /\ processors \in {{"A"}, Topics}
    /\ filters \in {[t \in Topics |-> ReplayMsgIds],
                    [t \in Topics |-> IF t = "A" THEN ReplayMsgIds \ {1} ELSE ReplayMsgIds]}
    /\ active_replays = << >>
    /\ replayTasks = << >>
    /\ replayReturn = NoReplayReturn
    /\ processorCalls = << >>
NextReplay ==
    \/ \E topic \in Topics, max_messages \in {1, MaxReplayMessages} :
           ReplayFailedMessages(topic, max_messages)
    \/ \E i \in 1..MaxReplays : StartReplayMessages(i)
    \/ \E i \in 1..MaxReplays, outcome \in ProcessorOutcomes : ProcessorReturns(i, outcome)
SpecReplay == InitReplay /\ [][NextReplay]_vars

\* ---- handle_error: every fallback strategy with and without its fallback
\* node and default response, 0..MaxRetries retries, with and without a custom
\* handler and a breaker
HeConfigs ==
    [max_retries : 0..MaxRetries, fallback_strategy : FallbackStrategies,
     fallback_node_id : {"None", "n2"}, default_response : {"None", "default"},
     retry_strategy : {"immediate", "exponential_backoff", "random_delay"},
     initial_delay_ms : {1}, max_delay_ms : {2}, jitter_ms : {0}]
InitHe ==
    /\ IdleThrottler
    /\ IdleSteps
    /\ IdleVal
    /\ IdleHist
    /\ IdleWe
    /\ IdlePb
    /\ IdleCb
    /\ IdleRd
    /\ IdleBus
    /\ IdleBranch
    /\ IdleEngine
    /\ IdleOrch
    /\ IdleBatch
    /\ IdleReplay
    /\ heConfig \in HeConfigs
    /\ error_handlers \in BOOLEAN
    /\ heBreaker \in {NoBreaker, NewBreaker(FailureThreshold, ResetTimeoutMs)}
    /\ error_context = None
    /\ heMessage = OriginalMessage
    /\ heCalls = << >>
NextHe ==
    \E handler \in HandlerOutcomes \cup {"none"},
       delay \in [kind : {"return", "raise"}, delay : 0..2] : HandleError(handler, delay)
SpecHe == InitHe /\ [][NextHe]_vars

\* ---- the persistent bus: publish calls whose saves return in any order
InitPBus ==
    /\ IdleThrottler
    /\ IdleSteps
    /\ IdleVal
    /\ IdleHist
    /\ IdleWe
    /\ IdleCb
    /\ IdleRd
    /\ IdleBranch
    /\ IdleEngine
    /\ IdleOrch
    /\ IdleBatch
    /\ IdleReplay
    /\ IdleHe
    /\ priority_queues = << >>
    /\ is_processing = FALSE
    /\ message_history = << >>
    /\ subscribers \in {<<"s1">>, <<"s1", "s2">>}
    /\ busClock = 0
    /\ ready = << >>
    /\ tasks = [d \in 1..MaxMessages |-> NoTask]
    /\ delivered = << >>
    /\ publishRaised = {}
    /\ publishCalls = << >>
NextPBus ==
    \/ \E message \in MessageKinds : PersistentPublish(message)
    \/ \E k \in 1..MaxPublishCalls, ok \in BOOLEAN, dt \in {0, 1} : SaveReturns(k, ok, dt)
    \/ ProcessQueueStart
    \/ ProcessQueueWake
    \/ \E ok \in BOOLEAN : Callback(ok)
    \/ GatherDone
SpecPBus == InitPBus /\ [][NextPBus]_vars

\* ---- the core workflow engine: callbacks are registered, workflows executed
InitWEngine ==
    /\ IdleThrottler
    /\ IdleSteps
    /\ IdleVal
    /\ IdleHist
    /\ IdlePb
    /\ IdleHe
    /\ IdleReplay
    /\ IdleBatch
    /\ IdleCb
    /\ IdleRd
    /\ IdleBus
    /\ IdleBranch
    /\ IdleEngine
    /\ IdleOrch
    /\ IdleWe
NextWEngine ==
    \/ \E kind \in CallbackKinds : RegisterWorkflowUpdateCallback(kind)
    \/ \E workflow_id \in (RegisteredIds \ CyclicWalkIds) \cup {"E0"} :
           WeExecuteWorkflow(workflow_id)
    \/ WeContinueWorkflowExecution
SpecWEngine == InitWEngine /\ [][NextWEngine]_vars

\* the core workflow engine on an event loop that keeps running the walk, every
\* registered workflow executed, the cyclic ones included: the walk of a cyclic
\* workflow notifies without end, so the notifications are not recorded here
NextWEngineLive ==
    \/ \E kind \in CallbackKinds : RegisterWorkflowUpdateCallback(kind)
    \/ \E workflow_id \in RegisteredIds \cup {"E0"} : WeExecuteWorkflow(workflow_id)
    \/ WeWalk
SpecWEngineLive == InitWEngine /\ [][NextWEngineLive]_vars /\ WF_vars(WeWalk)

(***************************************************************************)
(* Claims on the circuit breaker (SpecBreaker)                             *)
(***************************************************************************)
\* the step is a call of should_allow_execution(n)
AllowStep(n) == cbCall'.op = "allow" /\ cbCall'.node = n

\* the breaker of n has recorded FailureThreshold failures in a row and
\* reset_timeout has not elapsed since the last of them
TrippedAndWaiting(n) ==
    /\ circuit_breakers[n].exists
    /\ consec[n] >= FailureThreshold
    /\ now - lastFail[n] < ResetTimeoutMs

\* C2 as stated: after failure_threshold consecutive failures every
\* should_allow_execution call returns false until reset_timeout has elapsed
\* since the last failure, and a step whose breaker has fewer consecutive
\* failures, or that has no breaker, is allowed.
C2_AsStated ==
    [][\A n \in Nodes : AllowStep(n) =>
          /\ TrippedAndWaiting(n) => cbCall'.result = FALSE
          /\ (~circuit_breakers[n].exists \/ consec[n] < FailureThreshold)
                => cbCall'.result = TRUE]_vars

\* C2 amended: after failure_threshold consecutive failures every
\* should_allow_execution call returns false until reset_timeout has elapsed
\* since the last failure; a step that has no breaker is allowed, and a step
\* whose breaker has fewer consecutive failures is allowed unless the breaker is
\* still open from an earlier run of failures whose reset_timeout has not
\* elapsed (a success recorded on an open breaker resets the count only).
C2_BreakerBlocksUntilTimeout ==
    [][\A n \in Nodes : AllowStep(n) =>
          /\ TrippedAndWaiting(n) => cbCall'.result = FALSE
          /\ ~circuit_breakers[n].exists => cbCall'.result = TRUE
          /\ ( /\ circuit_breakers[n].exists
               /\ consec[n] < FailureThreshold
               /\ ~( /\ circuit_breakers[n].state = "open"
                     /\ now - lastFail[n] < ResetTimeoutMs) )
                => cbCall'.result = TRUE]_vars

\* C2 witness: a call was refused on a breaker that has FailureThreshold
\* consecutive failures, and the other node has no breaker
C2_Witness ==
    \E n \in Nodes :
        /\ cbCall = [op |-> "allow", node |-> n, result |-> FALSE]
        /\ consec[n] >= FailureThreshold
        /\ now - lastFail[n] < ResetTimeoutMs
        /\ \E m \in Nodes : ~circuit_breakers[m].exists

\* C3 as stated: once the breaker is open and reset_timeout has elapsed, only
\* one should_allow_execution call is admitted (the half-open probe) until an
\* outcome is recorded.
C3_SingleHalfOpenProbe ==
    \A n \in Nodes : probes[n] <= 1

(***************************************************************************)
(* Claims on calculate_retry_delay_ms (SpecRetry)                          *)
(***************************************************************************)
\* the delays the documentation lists for base 1000 ms
DocumentedExponential == <<1000, 2000, 4000, 8000>>

\* C4: without jitter the exponential strategy returns
\* min(initial_delay_ms * 2^n, max_delay_ms) (1000, 2000, 4000, 8000 capped for
\* base 1000), the linear strategy min(initial_delay_ms * (n+1), max_delay_ms),
\* the fixed strategy min(initial_delay_ms, max_delay_ms), the immediate
\* strategy 0.
C4_DelayWithoutJitter ==
    (rdResult.kind # "none" /\ rdConfig.jitter_ms = 0) =>
        LET c == rdConfig
            n == rdCount
            cap(d) == IF d <= c.max_delay_ms THEN d ELSE c.max_delay_ms
        IN /\ c.retry_strategy = "exponential_backoff" =>
                /\ rdResult = [kind |-> "return", delay |-> cap(c.initial_delay_ms * (2 ^ n))]
                /\ (c.initial_delay_ms = 1000 /\ n <= 3) =>
                      rdResult.delay = cap(DocumentedExponential[n + 1])
           /\ c.retry_strategy = "linear_backoff" =>
                rdResult = [kind |-> "return", delay |-> cap(c.initial_delay_ms * (n + 1))]
           /\ c.retry_strategy = "fixed_delay" =>
                rdResult = [kind |-> "return", delay |-> cap(c.initial_delay_ms)]
           /\ c.retry_strategy = "immediate" =>
                rdResult = [kind |-> "return", delay |-> 0]

\* C4 witness: the fourth exponential delay of base 1000 ms, uncapped
C4_Witness ==
    /\ rdConfig.retry_strategy = "exponential_backoff"
    /\ rdConfig.jitter_ms = 0
    /\ rdConfig.initial_delay_ms = 1000
    /\ rdConfig.max_delay_ms = 30000
    /\ rdCount = 3
    /\ rdResult = [kind |-> "return", delay |-> 8000]

\* C36: calculate_retry_delay_ms returns a delay d with 0 <= d <= max_delay_ms
\* for every strategy, retry count and jitter
C36_DelayWithinBounds ==
    rdResult.kind # "none"
        => /\ rdResult.kind = "return"
           /\ 0 <= rdResult.delay
           /\ rdResult.delay <= rdConfig.max_delay_ms

(***************************************************************************)
(* Claims on the priority message bus (SpecBus)                            *)
(***************************************************************************)
\* the priority a published message was queued with
PublishedPriority(id) == priority_of(message_history[id])

\* C30: a half-open breaker is closed by the next recorded success and opened
\* by the next recorded failure
C30_HalfOpenTransitions ==
    [][\A n \in Nodes :
           circuit_breakers[n].exists /\ circuit_breakers[n].state = "half-open"
               => /\ RecordSuccess(n) => circuit_breakers'[n].state = "closed"
                  /\ RecordFailure(n) => circuit_breakers'[n].state = "open"]_vars

\* C1: of two messages published to the topic with priorities p1 > p2, the p1
\* message is delivered to a subscriber before the p2 message, also when the
\* p1 message was published after the p2 message.  Stated for the pairs the bus
\* can order: the p1 message was published before the p2 message was taken
\* from the queue.
C1_NoPriorityInversion ==
    \A j \in 1..Len(delivered) :
        \A hi \in 1..delivered[j].seen :
            PublishedPriority(hi) > PublishedPriority(delivered[j].msg)
                => \E i \in 1..(j - 1) :
                      /\ delivered[i].msg = hi
                      /\ delivered[i].sub = delivered[j].sub

\* the _process_queue tasks that have started and not finished, and those of
\* them that wait for the fan-out of the message they popped
ActiveDrainLoops == {d \in 1..MaxMessages : tasks[d].st \in {"waiting", "woken"}}
InDelivery == {d \in 1..MaxMessages : tasks[d].st = "waiting"}

\* C29: at most one drain loop of the topic is active and at most one popped
\* message is in delivery at any time
C29_SingleDrainLoop ==
    /\ Cardinality(ActiveDrainLoops) <= 1
    /\ Cardinality(InDelivery) <= 1

\* the messages waiting in the topic's queue
Queued == {priority_queues[i].msg : i \in 1..Len(priority_queues)}

\* every subscriber of the topic has been called with the message
DeliveredToSubscribers(id) ==
    \A i \in 1..Len(subscribers) :
        \E k \in 1..Len(delivered) : delivered[k].msg = id /\ delivered[k].sub = subscribers[i]

\* C39: every message published to the topic is eventually popped from the
\* topic's queue and delivered to the topic's subscribers, also when a
\* subscriber callback raised during an earlier delivery and nothing more is
\* published
C39_PublishedEventuallyDelivered ==
    \A id \in 1..MaxLiveMessages :
        (id <= Len(message_history) /\ id \notin publishRaised)
            ~> (id \notin Queued /\ DeliveredToSubscribers(id))

(***************************************************************************)
(* Claims on the conditional branching engine (SpecBranch)                 *)
(***************************************************************************)
\* the positions of the conditions of branch b that evaluate true for message m
MatchingConditions(b, m) ==
    {i \in 1..Len(b.conditions) : evaluate_condition(b.conditions[i], m) = "true"}

\* C5: evaluate_branch returns the target of the lowest-index condition that
\* evaluates true for the message (of two matching conditions the
\* first-registered wins); when no condition matches it returns the branch's
\* default target, or none when no default is set.
C5_FirstMatchWins ==
    brCall.op = "evaluate_branch" =>
        LET b == workflow_branches[brCall.branch]
            matching == MatchingConditions(b, brCall.message)
            first == CHOOSE i \in matching : \A j \in matching : i <= j
        IN IF matching # {}
           THEN brCall.result = b.conditions[first].target_step_id
           ELSE /\ brCall.result = b.default_target_step_id
                /\ brCall.result \in {"tDefault", NoStep}

\* C5 witness: two conditions with different targets match the message and
\* the call returned the target of the first
C5_Witness ==
    /\ brCall.op = "evaluate_branch"
    /\ LET b == workflow_branches[brCall.branch]
       IN /\ MatchingConditions(b, brCall.message) = {1, 2}
          /\ b.conditions[1].target_step_id # b.conditions[2].target_step_id
          /\ brCall.result = b.conditions[1].target_step_id


\* the comparison operator cannot compare the stored value with the target:
\* an ordering of values that are not two ints or two strings, or a string
\* operation on a value that is not a string
Incomparable(value, target, comparison) ==
    \/ /\ comparison \in {"gt", "gte", "lt", "lte"}
       /\ ~(value.t = target.t /\ value.t \in {"int", "str"})
    \/ /\ comparison \in {"contains", "startswith", "endswith"}
       /\ ~(value.t = "str" /\ target.t = "str")

\* C31: get_next_step returns what the first-registered branch from the step
\* yields; branches registered later for the same step do not affect the result
C31_FirstBranchDecides ==
    brCall.op = "get_next_step"
        => LET from_step == get_branches_from_step(workflow_branches, brCall.step)
           IN from_step # << >>
                  => brCall.result = evaluate_branch(Head(from_step), brCall.message)

\* C23: evaluate_condition never raises, and it returns false when the key
\* of a metadata or context check is missing from the message's map or when
\* the stored value and the target cannot be compared by the operator
C23_ConditionNeverRaises ==
    brCall.op = "evaluate_condition" =>
        LET c == workflow_branches[brCall.branch].conditions[brCall.condition]
            map == IF c.condition_type = "metadata_check"
                   THEN brCall.message.metadata
                   ELSE brCall.message.context
        IN /\ brCall.result # "raise"
           /\ ( /\ c.condition_type \in {"metadata_check", "context_check"}
                /\ \/ c.key \notin DOMAIN map
                   \/ Incomparable(map[c.key], c.value, c.comparison) )
                  => brCall.result = "false"

\* C27: _get_next_step takes the next step from the edge list only when no
\* branch is registered for the current step; with a branch registered for
\* the step the result is what the branches yield, no step included
C27_EdgesOnlyWithoutBranch ==
    brCall.op = "_get_next_step" =>
        IF get_branches_from_step(workflow_branches, brCall.step) = << >>
        THEN brCall.result = base_get_next_step(BranchWorkflowEdges, brCall.step)
        ELSE brCall.result = get_next_step(workflow_branches, brCall.step, brCall.message)

(***************************************************************************)
(* Claims on the nested workflow round trip (SpecEngine)                   *)
(***************************************************************************)
\* the nested execution i has run its child to a result that carries key y
ChildComputedY(i) ==
    /\ execution_contexts[i].status = "completed"
    /\ ~execution_contexts[i].result_message.none
    /\ execution_contexts[i].result_message.context["y"] # Absent

\* the task of execution i has just called resume_workflow_from_step: the
\* parent's context is at the nested step and a driving loop is about to run
JustResumed(i) ==
    /\ nestedTasks[i].pc = "resume"
    /\ engine_contexts[execution_contexts[i].parent_workflow_id].current_step_id =
           execution_contexts[i].parent_step_id

C10_ChildFailureResumesParent ==
    \A i \in 1..Len(execution_contexts) :
        nestedTrace[i].child_failed /\ nestedTasks[i].pc \in {"resume", "done"}
            => /\ execution_contexts[i].status = "failed"
               /\ nestedTrace[i].resumed

\* C11: once cancel_nested_workflow has succeeded on an execution, the nested
\* engine does not resume the parent for it: the execution's task never calls
\* resume_workflow_from_step
C11_CancelNeverResumesParent ==
    \A i \in 1..Len(execution_contexts) :
        nestedTrace[i].cancelled
            => ~nestedTrace[i].resumed /\ nestedTasks[i].pc # "resume"

\* the terminal statuses of a nested execution
TerminalStatuses == {"completed", "failed", "cancelled"}

\* C25: the status of a nested execution only moves forward, from pending
\* to running or to a terminal status and from running to a terminal status;
\* a terminal status never changes
C25_TerminalStatusIsFinal ==
    [][\A i \in 1..Len(execution_contexts) :
           LET before == execution_contexts[i].status
               after == execution_contexts'[i].status
           IN before # after
                  => \/ before = "pending" /\ after \in {"running"} \cup TerminalStatuses
                     \/ before = "running" /\ after \in TerminalStatuses]_vars

\* C28: a cancel_nested_workflow call returns true only for an execution that
\* is pending or running; for an unknown id and for a terminal execution it
\* returns false and leaves every nested context (status, end time) and every
\* execution context of the engine as it was
C28_CancelOnlyWhenLive ==
    [][\A i \in 1..(Len(execution_contexts) + 1) :
           CancelNestedWorkflow(i)
               => LET live == /\ i \in 1..Len(execution_contexts)
                              /\ execution_contexts[i].status \in {"pending", "running"}
                  IN /\ cancelCall'.returned => live
                     /\ ~live => /\ ~cancelCall'.returned
                                 /\ execution_contexts' = execution_contexts
                                 /\ engine_contexts' = engine_contexts]_vars

\* C28 witness: cancel was called on a completed execution and returned
\* false; the context is still completed and holds its end time
C28_Witness ==
    /\ cancelCall.execution_id \in 1..Len(execution_contexts)
    /\ ~cancelCall.returned
    /\ execution_contexts[cancelCall.execution_id].status = "completed"
    /\ execution_contexts[cancelCall.execution_id].end_time >= 0

\* the step in which the execute_workflow call of the caller returns
MainReturns == mainTask.pc # "returned" /\ mainTask'.pc = "returned"

\* the driving loops running on the execution context of a workflow: the loop
\* of the execute_workflow caller, of a nested execution's task (on the child
\* while it executes the child, on the parent once it has resumed it) and of a
\* caller of resume_workflow_from_step
DrivingLoops(w) ==
    (IF w = "P" /\ mainTask.pc = "driving" THEN {<<"main", 0>>} ELSE {})
    \cup {<<"child", i>> : i \in {j \in 1..Len(nestedTasks) :
              nestedTasks[j].pc = "child" /\ execution_contexts[j].child_workflow_id = w}}
    \cup {<<"resume", i>> : i \in {j \in 1..Len(nestedTasks) :
              nestedTasks[j].pc = "resume" /\ execution_contexts[j].parent_workflow_id = w}}
    \cup (IF resumeTask.pc = "driving" /\ resumeTask.workflow_id = w
          THEN {<<"caller", 0>>} ELSE {})

\* the step is a pass of the given loop
PassOf(loop) ==
    CASE loop[1] = "main" ->
             \E outcome \in AllOutcomes : MainLoop(outcome)
      [] loop[1] = "child" ->
             \E outcome \in AllOutcomes : ChildLoop(loop[2], outcome)
      [] loop[1] = "resume" ->
             \E outcome \in AllOutcomes : ResumeLoop(loop[2], outcome)
      [] OTHER ->
             \E outcome \in AllOutcomes : CallerResumeLoop(outcome)

\* C32: at most one driving loop runs on an execution context, and while it
\* runs only its own passes change the context's current step and message
C32_ContextExclusivelyOwned ==
    /\ [](\A w \in WorkflowIds : Cardinality(DrivingLoops(w)) <= 1)
    /\ [][\A w \in WorkflowIds :
              \A loop \in DrivingLoops(w) :
                  \/ /\ engine_contexts'[w].current_step_id
                            = engine_contexts[w].current_step_id
                     /\ engine_contexts'[w].current_message
                            = engine_contexts[w].current_message
                  \/ PassOf(loop)]_vars

\* C26: when execute_workflow returns no message (the execution is reported
\* paused), a pending or running nested execution exists for the current step
\* of the workflow
C26_PauseOnlyWithLiveNestedContext ==
    [][MainReturns /\ mainTask'.result.none
           => \E i \in 1..Len(execution_contexts') :
                  /\ execution_contexts'[i].parent_workflow_id = "P"
                  /\ execution_contexts'[i].parent_step_id =
                         engine_contexts'["P"].current_step_id
                  /\ execution_contexts'[i].status \in {"pending", "running"}]_vars

\* the workflow w is paused on a nested step: one of its nested executions is
\* pending or running
PausedOnNestedStep(nested, w) ==
    \E j \in 1..Len(nested) :
        nested[j].parent_workflow_id = w /\ nested[j].status \in {"pending", "running"}

\* the execution of the child workflow w has run to completion: no step
\* failed, it is not paused, and no step follows its current step
RanToCompletion(contexts, nested, failed, w) ==
    /\ contexts[w].exists
    /\ ~failed
    /\ ~PausedOnNestedStep(nested, w)
    /\ base_get_next_step(get_workflow(w).edges, contexts[w].current_step_id) = NoStep

\* C34: a nested execution is marked COMPLETED and its parent resumed only
\* after the child workflow has run to completion, not when the child's
\* execute_workflow returned because the child paused on a nested step
C34_CompletedOnlyAfterChildRan ==
    [][\A i \in 1..Len(execution_contexts) :
           \/ /\ execution_contexts[i].status # "completed"
              /\ execution_contexts'[i].status = "completed"
           \/ /\ nestedTasks[i].pc # "resume"
              /\ nestedTasks'[i].pc = "resume"
           => RanToCompletion(engine_contexts', execution_contexts',
                              nestedTrace'[i].child_failed,
                              execution_contexts[i].child_workflow_id)]_vars

\* the steps of a workflow from step s along the edges up to, not including,
\* the target step: the steps the execution has advanced past
RECURSIVE steps_until(_, _, _)
steps_until(edges, s, target) ==
    IF s = target \/ s = NoStep THEN {}
    ELSE {s} \cup steps_until(edges, base_get_next_step(edges, s), target)

\* how often execute_step has invoked the executor of a step
InvocationCount(w, s) ==
    Cardinality({k \in 1..Len(invocations) : invocations[k] = <<w, s>>})

C35_ExceptStartStep ==
    \A w \in WorkflowIds :
        engine_contexts[w].exists
            => /\ \A s \in steps_until(get_workflow(w).edges, start_step(get_workflow(w)),
                                       engine_contexts[w].current_step_id)
                           \ {start_step(get_workflow(w))} :
                      InvocationCount(w, s) = 1
               /\ \A s \in get_workflow(w).steps : InvocationCount(w, s) <= 1

\* C33: starting a nested execution for a step of parent workflow A leaves
\* get_step_execution(B, s) unchanged for every other parent workflow B and
\* every step s
C33_UnrelatedStepExecutionUnchanged ==
    [][\A a \in ParentIds, step \in ParentStepIds, c \in ChildIds :
           ExecuteNestedWorkflow(a, step, c)
               => \A b \in ParentIds \ {a}, s \in ParentStepIds :
                      get_step_execution(step_contexts', nested_executions', b, s)
                          = get_step_execution(step_contexts, nested_executions, b, s)]_vars

(***************************************************************************)
(* Claims on the throttler (SpecThrottler)                                 *)
(***************************************************************************)
\* C37: in every reachable state of the throttler, the initial state
\* included, 0 <= tokens <= burst_limit
C37_TokensWithinBucket ==
    0 <= tokens /\ tokens <= burst_limit

(***************************************************************************)
(* Claims on execute_workflow of the orchestrator (SpecOrch)               *)
(***************************************************************************)
\* C9: an execute_workflow call in which a step failed without being
\* recovered does not raise: it returns, reporting the error
C9_StepFailureIsReturned ==
    orchCall.op = "execute_workflow" /\ orchCall.step_failed
        => orchCall.kind = "returned" /\ orchCall.error # "none"

(***************************************************************************)
(* Claims on get_message_history (SpecHistory)                             *)
(***************************************************************************)
\* C22: get_message_history returns at most limit messages of the topic's
\* history, most recent first, each of priority min_priority or higher, a
\* message without explicit priority counting as priority 5
C22_HistorySlice ==
    historyCall.op = "get_message_history"
        => /\ Len(historyCall.result) <= historyCall.limit
           /\ \A i \in 1..Len(historyCall.result) :
                  /\ historyCall.result[i] \in 1..Len(message_history)
                  /\ priority_of(message_history[historyCall.result[i]])
                         >= historyCall.min_priority
           /\ \A i \in 1..(Len(historyCall.result) - 1) :
                  historyCall.result[i] > historyCall.result[i + 1]

(***************************************************************************)
(* Claims on validate_output (SpecValidate)                                *)
(***************************************************************************)
\* the positions of the registered rules that fail on the validated message
FailingRules == {i \in 1..Len(rules) : ~validateCall.result.rule_results[i].passed}

\* C24: validate_output reports the output invalid exactly when a rule of
\* severity "error" failed; when invalid, the error context has retry_count 0,
\* lists every failing error rule with its id and message, and lists failing
\* rules only
C24_InvalidOnlyOnErrorSeverity ==
    validateCall.op = "validate_output" =>
        LET r == validateCall.result
            listed == {r.error_context.errors[k] : k \in 1..Len(r.error_context.errors)}
        IN /\ ~r.valid <=> \E i \in FailingRules : rules[i].severity = "error"
           /\ ~r.valid =>
                  /\ r.error_context.retry_count = 0
                  /\ \A i \in FailingRules :
                         rules[i].severity = "error" =>
                             [rule_id |-> rules[i].id,
                              message |-> r.rule_results[i].message] \in listed
                  /\ \A e \in listed :
                         \E i \in FailingRules :
                             e = [rule_id |-> rules[i].id,
                                  message |-> r.rule_results[i].message]

(***************************************************************************)
(* Claims on the message batcher (SpecBatch)                               *)
(***************************************************************************)
\* C7: a handler is called only with a full batch or after the timeout has
\* elapsed since the first message of the batch was buffered; a call made by
\* add_message carries exactly batch_size messages, in arrival order; and no
\* buffer of a topic with a handler is left holding batch_size messages
C7_FlushOnlyWhenFullOrTimedOut ==
    /\ \A k \in 1..Len(handlerCalls) :
           \/ handlerCalls[k].by = "stop"
           \/ Len(handlerCalls[k].batch) >= batch_size
           \/ handlerCalls[k].at - addedAt[handlerCalls[k].batch[1]].time >= timeout_seconds
    /\ \A k \in 1..Len(handlerCalls) :
           handlerCalls[k].by = "add"
               => /\ Len(handlerCalls[k].batch) = batch_size
                  /\ \A i \in 1..(batch_size - 1) :
                         handlerCalls[k].batch[i] < handlerCalls[k].batch[i + 1]
    /\ \A t \in batch_handlers : Len(message_batches[t]) < batch_size

\* the time since the first message of a topic's buffer was added
buffered_for(t) == batchClock - addedAt[message_batches[t][1]].time

\* C21: a periodic check flushes every buffer of a topic with a handler whose
\* first message has been waiting for the timeout or longer: when the check
\* has run (to its end or to the handler call it waits in) the buffer has been
\* taken, or the check is suspended in a handler call and has yet to visit it
C21_TimeoutFromFirstMessage ==
    [][CheckTimeouts =>
           \A t \in batch_handlers :
               message_batches[t] # << >> /\ buffered_for(t) >= timeout_seconds
                   => \/ message_batches'[t] = << >>
                      \/ /\ checker'.pc = "check"
                         /\ \E i \in 1..Len(checker'.snapshot) :
                                checker'.snapshot[i].topic = t]_vars

\* the messages passed to a handler after the step
PassedToHandler ==
    UNION {{handlerCalls'[k].batch[i] : i \in 1..Len(handlerCalls'[k].batch)} :
               k \in 1..Len(handlerCalls')}

\* the step in which a stop() call returns
StopReturns == stopper.pc # "returned" /\ stopper'.pc = "returned"

\* the messages still buffered, and those of the batch of handler call k
Buffered == UNION {{message_batches[t][i] : i \in 1..Len(message_batches[t])} : t \in Topics}
InBatch(k) == {handlerCalls[k].batch[i] : i \in 1..Len(handlerCalls[k].batch)}

C20_StopFlushesEverything ==
    [][StopReturns
           => /\ \A t \in Topics : message_batches'[t] = << >>
              /\ batch_handlers = Topics => \A id \in 1..added : id \in PassedToHandler]_vars

(***************************************************************************)
(* Claims on the replay manager (SpecReplay)                               *)
(***************************************************************************)
\* a step in which the processor is called on the message
PassedToProcessor(id) ==
    /\ Len(processorCalls') > Len(processorCalls)
    /\ processorCalls'[Len(processorCalls')].message = id

\* C8: a message whose persisted status is PROCESSED is not passed to the
\* processor by any replay session, and its status stays PROCESSED
C8_ProcessedIsNeverReplayed ==
    [][\A id \in ReplayMsgIds :
           msgStatus[id] = "processed"
               => msgStatus'[id] = "processed" /\ ~PassedToProcessor(id)]_vars

\* the processor calls of session i, in the order they were made
CallsOf(i) == SelectSeq(processorCalls, LAMBDA c : c.replay_id = i)

\* C19: in every replay session the processor calls are made on the fetched
\* messages in their order, the next one only after the previous one has returned
\* or raised; every call that returned True counts as one success and every call
\* that returned False or raised as one failure, so that always
\* processed = succeeded + failed <= total; and the session is completed exactly
\* when its loop has ended, with processed = total.
C19_SessionAccounting ==
    \A i \in 1..Len(active_replays) :
        LET replay == active_replays[i]
            task == replayTasks[i]
            calls == CallsOf(i)
            in_flight == IF task.pc = "processor" THEN 1 ELSE 0
            Succeeded(k) == task.outcomes[k] = "true"
        IN /\ replay.total_messages = Len(task.messages)
           /\ replay.processed_messages = replay.successful_messages + replay.failed_messages
           /\ replay.processed_messages <= replay.total_messages
           /\ replay.processed_messages = Len(task.outcomes)
           /\ replay.successful_messages = Cardinality({k \in 1..Len(task.outcomes) : Succeeded(k)})
           /\ Len(calls) = replay.processed_messages + in_flight
           /\ \A k \in 1..Len(calls) : calls[k].message = task.messages[k]
           /\ replay.status = "completed" <=> task.pc = "done"
           /\ replay.status = "completed" => replay.processed_messages = replay.total_messages

\* a completed session of two messages whose processor raised for the first and
\* returned True for the second
C19_Witness ==
    \E i \in 1..Len(active_replays) :
        /\ active_replays[i].status = "completed"
        /\ replayTasks[i].outcomes = <<"raise", "true">>
        /\ active_replays[i].failed_messages = 1
        /\ active_replays[i].successful_messages = 1
        /\ Len(CallsOf(i)) = 2

C13_AsStated ==
    \A k \in 1..Len(heCalls) :
        heCalls[k].kind = "fallback"
            => CASE heConfig.fallback_strategy = "default_response" ->
                        /\ heCalls[k].handled
                        /\ heCalls[k].new_message.content = heConfig.default_response
                        /\ heConfig.default_response # "None"
                 [] heConfig.fallback_strategy \in {"alternate_node", "error_node"} ->
                        /\ heCalls[k].handled
                        /\ heCalls[k].next_node_id = heConfig.fallback_node_id
                        /\ heConfig.fallback_node_id # "None"
                 [] heConfig.fallback_strategy = "skip_node" ->
                        /\ heCalls[k].handled
                        /\ heCalls[k].new_message = heCalls[k].passed
                        /\ heCalls[k].next_node_id = "None"
                 [] OTHER -> ~heCalls[k].handled

\* C13: once the retries are exhausted, default-response with a default
\* response configured returns handled with the default message and no
\* reroute; alternate-node and error-node with a fallback node configured
\* return handled with that node as next node, alternate-node with the message
\* unchanged and error-node with the error context (its retry count, if any
\* retry was made) in its metadata; skip-node
\* returns handled with the message unchanged and no reroute; abort-workflow,
\* and the other strategies without their default response or fallback node,
\* return not handled with no message and no next node
C13_FallbackOutcome ==
    \A k \in 1..Len(heCalls) :
        heCalls[k].kind = "fallback"
            => CASE heConfig.fallback_strategy = "default_response"
                        /\ heConfig.default_response # "None" ->
                        /\ heCalls[k].handled
                        /\ heCalls[k].new_message.content = heConfig.default_response
                        /\ heCalls[k].new_message.metadata = "fallback"
                        /\ heCalls[k].next_node_id = "None"
                 [] heConfig.fallback_strategy = "alternate_node"
                        /\ heConfig.fallback_node_id # "None" ->
                        /\ heCalls[k].handled
                        /\ heCalls[k].new_message = heCalls[k].passed
                        /\ heCalls[k].next_node_id = heConfig.fallback_node_id
                 [] heConfig.fallback_strategy = "error_node"
                        /\ heConfig.fallback_node_id # "None" ->
                        /\ heCalls[k].handled
                        /\ heCalls[k].new_message.content = heCalls[k].passed.content
                        /\ heCalls[k].new_message.metadata = "error"
                        /\ heCalls[k].new_message.detail =
                               (IF heConfig.max_retries = 0 THEN None
                                ELSE heConfig.max_retries)
                        /\ heCalls[k].next_node_id = heConfig.fallback_node_id
                 [] heConfig.fallback_strategy = "skip_node" ->
                        /\ heCalls[k].handled
                        /\ heCalls[k].new_message = heCalls[k].passed
                        /\ heCalls[k].next_node_id = "None"
                 [] OTHER ->
                        /\ ~heCalls[k].handled
                        /\ heCalls[k].new_message = NoneMessage
                        /\ heCalls[k].next_node_id = "None"

\* the retries of an error-node configuration with a fallback node are
\* exhausted and the call has rerouted the annotated message
C13_Witness ==
    /\ heConfig.fallback_strategy = "error_node"
    /\ heConfig.fallback_node_id = "n2"
    /\ heConfig.max_retries > 0
    /\ Len(heCalls) = heConfig.max_retries + 1
    /\ heCalls[Len(heCalls)].kind = "fallback"
    /\ heCalls[Len(heCalls)].handled
    /\ heCalls[Len(heCalls)].next_node_id = "n2"
    /\ heCalls[Len(heCalls)].new_message.metadata = "error"
(***************************************************************************)
(* Claims on the persistent bus (SpecPBus)                                 *)
(***************************************************************************)
\* C14: a publish call whose save failed does not raise and its message is in
\* the history; once no call is waiting for its save and the event loop has
\* nothing left to run, the message has been delivered to every subscriber
C14_SaveFailureNotFatal ==
    \A k \in 1..Len(publishCalls) :
        publishCalls[k].save = "failed"
            => /\ ~publishCalls[k].raised
               /\ message_history[publishCalls[k].id] = publishCalls[k].message
               /\ (ready = << >> /\ \A c \in 1..Len(publishCalls) :
                                        publishCalls[c].save # "pending")
                      => \A s \in 1..Len(subscribers) :
                             \E j \in 1..Len(delivered) :
                                 /\ delivered[j].msg = publishCalls[k].id
                                 /\ delivered[j].sub = subscribers[s]

\* C15: of two messages of equal priority, the one whose publish call was made
\* first is delivered first to every subscriber that has received both
C15_FifoWithinPriority ==
    \A k1, k2 \in 1..Len(publishCalls) :
        k1 < k2 /\ priority_of(publishCalls[k1].message) = priority_of(publishCalls[k2].message)
            => \A j1, j2 \in 1..Len(delivered) :
                   /\ delivered[j1].msg = publishCalls[k1].id
                   /\ delivered[j2].msg = publishCalls[k2].id
                   /\ delivered[j1].sub = delivered[j2].sub
                   => j1 < j2

(***************************************************************************)
(* Claims on the core workflow engine (SpecWEngine)                        *)
(***************************************************************************)
\* the nodes of a registered workflow that no edge targets
StartCandidates(workflow_id) ==
    LET workflow == RegisteredWorkflows[workflow_id]
    IN {i \in 1..Len(workflow.nodes) :
            \A k \in 1..Len(workflow.edges) :
                workflow.edges[k].target_id # workflow.nodes[i]}

\* C16: a call of execute_workflow on an unknown workflow id, or on a workflow
\* that has no start candidate or more than one (nodes without incoming edge),
\* ends at once without a result, and no node of the workflow is visited and no
\* update is sent for it.
C16_BadWorkflowRejected ==
    /\ weCall.pc # "idle"
    /\ \/ weCall.workflow_id \notin RegisteredIds
       \/ Cardinality(StartCandidates(weCall.workflow_id)) # 1
    => /\ weCall.pc = "done"
       /\ weCall.result # "current_message"
       /\ weCall.visited_nodes = {}
       /\ updateLog = << >>

\* the update was handed to every callback registered when it was sent
Delivered(node_id, status) ==
    \E k \in 1..Len(updateLog) :
        /\ updateLog[k].event.node_id = node_id
        /\ updateLog[k].event.status = status
        /\ Len(updateLog[k].invoked) = updateLog[k].registered

\* C17: when a call of execute_workflow has ended, the start and the end of every
\* node it visited were notified, a call that completed was notified as
\* completed, and a call that failed (it created its context and ended without
\* completing) was notified as an error.
C17_UpdateOnEveryTransition ==
    weCall.pc = "done" /\ weCall.context
    => /\ \A node_id \in weCall.visited_nodes :
              Delivered(node_id, "executing") /\ Delivered(node_id, "completed")
       /\ weCall.ended = "completed" => Delivered(NoStep, "completed")
       /\ weCall.ended # "completed" => \E k \in 1..Len(updateLog) :
                                            updateLog[k].event.status = "error"

\* the call and the sequence of update events of execute_workflow(workflow_id) on
\* an engine without callbacks
RECURSIVE RunWithoutCallbacks(_, _)
RunWithoutCallbacks(call, events) ==
    IF call.pc # "loop" THEN [call |-> call, events |-> events]
    ELSE LET r == we_continue_iteration(RegisteredWorkflows[call.workflow_id], call, << >>)
         IN RunWithoutCallbacks(r.call,
                events \o [k \in 1..Len(r.log) |-> r.log[k].event])

\* C18: whichever callbacks raise, every update of a call is handed to all the
\* callbacks registered at that moment, in registration order, and a call that
\* has ended visited the nodes, sent the updates and returned the result that
\* the same call has on an engine without callbacks.
C18_CallbackFailureSwallowed ==
    /\ \A k \in 1..Len(updateLog) :
           updateLog[k].invoked = [i \in 1..updateLog[k].registered |-> i]
    /\ weCall.pc = "done"
       => LET plain == RunWithoutCallbacks(we_execute_workflow(weCall.workflow_id), << >>)
          IN /\ weCall = plain.call
             /\ [k \in 1..Len(updateLog) |-> updateLog[k].event] = plain.events

\* a completed walk over two nodes whose updates all went first to a callback
\* that raises and then to a second callback
C18_Witness ==
    /\ weCall.pc = "done"
    /\ weCall.ended = "completed"
    /\ weCall.visited_nodes = {"a", "b"}
    /\ update_callbacks = <<"raise", "ok">>
    /\ Len(updateLog) = 5
    /\ \A k \in 1..Len(updateLog) : updateLog[k].invoked = <<1, 2>>
\* C40: every execution started by execute_workflow eventually returns, for
\* every registered workflow, those whose edges form a cycle included
C40_ExecuteWorkflowReturns ==
    \A workflow_id \in RegisteredIds :
        (weCall.workflow_id = workflow_id /\ weCall.pc = "loop") ~> (weCall.pc = "done")

====
